---- MODULE Spec2Model ----
(***************************************************************************)
(* CineMate Care: the perception-to-action coordination core.              *)
(*                                                                         *)
(*   SpecGate  - AudioMonitor (backend/audio_monitor.py): loudness gate    *)
(*   SpecOrch  - CinemateCareOrchestrator (backend/main.py): vision worker *)
(*               thread, caption queue, main orchestration loop            *)
(*   FairOrch  - SpecOrch with the scheduling of the asyncio main loop     *)
(*   SpecDemo  - DemoMode / DemoController (backend/demo_mode.py) and the  *)
(*               failure path of CognitiveEngine.analyze_context           *)
(*   SpecKey   - VisionCapture.is_keyframe (backend/vision_capture.py) as  *)
(*               the capture loop of the vision worker calls it            *)
(*   SpecOrchGate - the orchestrator with an AudioMonitor thread beside it *)
(*                                                                         *)
(* Optional values (Python None) are sequences: << >> is None, <<v>> is v. *)
(***************************************************************************)
EXTENDS Integers, Sequences, FiniteSets, TLC

VARIABLES
    \* ---- AudioMonitor ----
    current_db,        \* self.current_db
    last_loud_time,    \* self.last_loud_time (<< >> = None, <<t>> = datetime t)
    now,               \* datetime.now() seen by the monitor, in ms
    g_op,              \* history: the last gate operation
    g_last_loud,       \* history: time of the last sample above the threshold
    g_drop_time,       \* history: time of the first sample at/under the threshold
                       \*          after the last sample above it
    g_repeats,         \* history: number of consecutive samples with the same level
    \* ---- CinemateCareOrchestrator ----
    running,           \* self.running
    shutdown_event,    \* self.shutdown_event.is_set()
    caption_queue,     \* self.caption_queue (queue.Queue), oldest first
    latest_caption,    \* self.latest_caption
    loop_count,        \* loop_count of _main_loop, kept modulo the cognition period
    main_pc,           \* position of start()/_main_loop
    vision_pc,         \* position of the vision worker thread
    next_obs,          \* number of observations the vision worker has published
    outage,            \* environment: the reasoning collaborator fails on every call
    last_spoken,       \* the last utterance handed to voice.speak_async
    g_taken,           \* history: observation taken by the last get_nowait
    g_newest_at_take,  \* history: newest observation published when it was taken
    g_fallback_spoken, \* history: an utterance was dispatched for a failed reasoner call
    g_failed_calls,    \* history: some reasoner call of the session has failed
    distress_age,      \* voice.last_distress_time as the seconds since it (<< >> = None),
                       \* saturating at the distress window
    g_cycle,           \* history: what STEP 2 to 4 of the last finished iteration did
    g_fresh,           \* history: a caption was taken since the last reasoner call
    \* ---- DemoMode / DemoController ----
    is_demo,           \* DemoController.is_demo (DEMO_MODE of the environment)
    is_demo_active,    \* DemoMode.is_demo_active
    clip_start_time,   \* DemoMode.clip_start_time
    demo_now,          \* datetime.now() seen by the demo mode, in seconds
    demo_resp,         \* the response returned by the last resolution
    demo_arg,          \* history: kind of azure_response of the last get_response
    d_op,              \* history: the last demo operation
    \* ---- VisionCapture keyframe detection ----
    kf_pc,                 \* "unconstructed", then "capturing" until the worker loop ends
    max_interval_seconds,  \* self.max_interval_seconds
    previous_frame_gray,   \* self.previous_frame_gray (<< >> = None)
    last_analysis_time,    \* self.last_analysis_time, in seconds
    key_now,               \* time.time() seen by the detector, in seconds
    g_eval,                \* history: the last evaluation of a frame
    g_prev_eval,           \* history: the evaluation before it
    g_last_accept,         \* history: time of the last evaluation that returned True
    \* ---- CognitiveEngine.analyze_context, one call ----
    eng_payload,           \* the JSON object the reasoner returned (<< >> before a call)
    eng_result,            \* what analyze_context returned for it
    \* ---- VoiceInterface.speak_async and its callers ----
    synth,                 \* callers whose speak_async call is synthesizing an utterance
    is_speaking,           \* self.is_speaking
    vloop_pc,              \* _main_loop: "iterating" or "awaiting_speech"
    cb_pc,                 \* the recognizer callback thread: "idle", "wake" or "distress"
    v_cycles,              \* history: iterations finished since the last dispatch (capped)
    v_last,                \* history: the last speak_async call that returned
    \* ---- VisionCapture camera and analysis, the vision worker thread ----
    cap,                   \* self.cap: "none", "open", or "unopened" (a VideoCapture
                           \* object that is not opened)
    consecutive_failures,  \* self.consecutive_failures
    vw_pc,                 \* position of _vision_worker
    vw_shutdown,           \* self.shutdown_event.is_set() as the worker sees it
    attempts,              \* calls of the vision service made for the current request
    published,             \* observations put on the caption queue (capped)
    g_frame,               \* history: the last get_frame call
    g_request,             \* history: the last process_frame call of the worker
    \* ---- DemoMode.get_response_for_timestamp called with a timestamp ----
    ts_seconds,            \* the seconds argument of the last call, None before any
    ts_result,             \* the entry the last call returned
    \* ---- WizardOfOz ----
    wiz_spoken,            \* the text and emotion last handed to WizardOfOz._speak
    wiz_op,                \* history: the last wizard operation and its argument
    \* ---- user utterances (recognizer callbacks of the orchestrator) ----
    user_history,          \* self.user_history
    h_acks,                \* acknowledgements spoken by _on_wake_word (capped)
    h_arrived,             \* history: every utterance appended so far, in order
    h_op,                  \* history: the last callback
    \* ---- distress callback of the orchestrator and its cooldown ----
    last_distress_check,   \* self.last_distress_check (seconds since construction)
    co_now,                \* datetime.now() (seconds since construction)
    g_last_comfort,        \* history: time of the last comfort message, None before any
    g_distress,            \* history: the last distress event
    \* ---- one session of the orchestrator: start(), stop(), signal_handler ----
    sd_pc,                 \* position of the main thread in start(), stop() and the exit
    sd_caller,             \* who called the stop() in progress: "handler" or "finally"
    sd_in_try,             \* the signal arrived inside the try block of start()
    sd_running,            \* self.running
    sd_event,              \* self.shutdown_event.is_set()
    sd_listening,          \* the speech listener is started
    sd_thread,             \* the vision thread: "none", "alive" or "joined"
    stop_calls,            \* history: calls of stop() in the session
    farewells,             \* history: farewell utterances spoken in the session
    sd_way,                \* history: the way the session ended
    \* ---- CognitiveProcessingPause ----
    pause_constructed,     \* the controller has been constructed
    pause_callback,        \* a pause callback was given
    unpause_callback,      \* an unpause callback was given
    is_paused,             \* self.is_paused
    p_log,                 \* history: the callbacks invoked so far, in order
    p_last,                \* history: the last thinking_* call and whether it called back
    p_calls,               \* history: number of thinking_* calls
    \* ---- AudioMonitor.start / stop and its monitor threads ----
    is_monitoring,         \* self.is_monitoring
    monitor_thread,        \* self.monitor_thread: None or the thread started last
    mon_threads,           \* state of each thread created: "none", "running", "ended"
    mon_ingested,          \* history: threads that have ingested a sample since the
                           \* last start()
    \* ---- MockVisionCapture ----
    frame_count,           \* self.frame_count
    analysis_count,        \* self.analysis_count
    scene_index,           \* self._scene_index
    mock_result,           \* what the last process_frame call returned: None or Some
    mk_op,                 \* history: the last call on the mock
    mk_cycles,             \* history: get_frame/process_frame cycles without an analysis
                           \* (capped), counted while only whole cycles were run
    \* ---- AudioMonitor shared between the monitor thread and a reader thread ----
    shared_current_db,     \* self.current_db
    shared_last_loud_time, \* self.last_loud_time
    shared_now,            \* datetime.now() in ms
    w_pc,                  \* position of the monitor thread in _process_db_level
    w_db,                  \* the sample it is processing
    r_pc,                  \* position of the reader in is_quiet / should_ai_speak
    r_kind,                \* the method the reader called
    r_current,             \* should_ai_speak: the local "current"
    r_quiet,               \* the value of is_quiet() as far as computed
    r_result,              \* history: what the last call returned
    r_possible             \* history: the results of the call on each gate state that
                           \* existed between its start and its end

gate_vars == <<current_db, last_loud_time, now, g_op, g_last_loud, g_drop_time, g_repeats>>
orch_vars == <<running, shutdown_event, caption_queue, latest_caption, loop_count,
               main_pc, vision_pc, next_obs, outage, last_spoken, g_taken,
               g_newest_at_take, g_fallback_spoken, g_failed_calls, distress_age,
               g_cycle, g_fresh>>
demo_vars == <<is_demo, is_demo_active, clip_start_time, demo_now, demo_resp, demo_arg, d_op>>
key_vars == <<kf_pc, max_interval_seconds, previous_frame_gray, last_analysis_time,
              key_now, g_eval, g_prev_eval, g_last_accept>>
eng_vars == <<eng_payload, eng_result>>
voice_vars == <<synth, is_speaking, vloop_pc, cb_pc, v_cycles, v_last>>
cam_vars == <<cap, consecutive_failures, vw_pc, vw_shutdown, attempts, published,
              g_frame, g_request>>
ts_vars == <<ts_seconds, ts_result>>
wiz_vars == <<wiz_spoken, wiz_op>>
hist_vars == <<user_history, h_acks, h_arrived, h_op>>
cool_vars == <<last_distress_check, co_now, g_last_comfort, g_distress>>
pause_vars == <<pause_constructed, pause_callback, unpause_callback, is_paused, p_log,
                p_last, p_calls>>
mon_vars == <<is_monitoring, monitor_thread, mon_threads, mon_ingested>>
mock_vars == <<frame_count, analysis_count, scene_index, mock_result, mk_op, mk_cycles>>
conc_vars == <<shared_current_db, shared_last_loud_time, shared_now, w_pc, w_db, r_pc,
               r_kind, r_current, r_quiet, r_result, r_possible>>
sd_vars == <<sd_pc, sd_caller, sd_in_try, sd_running, sd_event, sd_listening, sd_thread,
             stop_calls, farewells, sd_way>>
ext_vars == <<wiz_vars, hist_vars, cool_vars, sd_vars, pause_vars, mon_vars, mock_vars, conc_vars>>
wiz_others == <<hist_vars, cool_vars, sd_vars, pause_vars, mon_vars, mock_vars, conc_vars>>
hist_others == <<wiz_vars, cool_vars, sd_vars, pause_vars, mon_vars, mock_vars, conc_vars>>
cool_others == <<wiz_vars, hist_vars, sd_vars, pause_vars, mon_vars, mock_vars, conc_vars>>
sd_others == <<wiz_vars, hist_vars, cool_vars, pause_vars, mon_vars, mock_vars, conc_vars>>
pause_others == <<wiz_vars, hist_vars, cool_vars, sd_vars, mon_vars, mock_vars, conc_vars>>
mon_others == <<wiz_vars, hist_vars, cool_vars, sd_vars, pause_vars, mock_vars, conc_vars>>
mock_others == <<wiz_vars, hist_vars, cool_vars, sd_vars, pause_vars, mon_vars, conc_vars>>
conc_others == <<wiz_vars, hist_vars, cool_vars, sd_vars, pause_vars, mon_vars, mock_vars>>
aux_vars == <<eng_vars, voice_vars, cam_vars, ts_vars, ext_vars>>
base_vars == <<gate_vars, orch_vars, demo_vars, key_vars, eng_vars, voice_vars, cam_vars,
               ts_vars>>
vars == <<gate_vars, orch_vars, demo_vars, key_vars, aux_vars>>

None == << >>
Some(v) == <<v>>

(***************************************************************************)
(* AudioMonitor                                                            *)
(***************************************************************************)
threshold_db == 70
quiet_duration_ms == 500

\* granularity and horizon of the modelled clock
TickMs == 100
MaxTicks == 8

\* loudness samples fed to the gate (0-100 scale): under, at and over the threshold
Levels == {40, 70, 85}

\* is_quiet without the test of the current level (elapsed time alone)
IsQuietOn_NoLevelTest(db, loud, t) ==
    IF loud = None THEN TRUE
    ELSE (t - loud[1]) >= quiet_duration_ms

\* is_quiet with a strict comparison of the elapsed time
IsQuietOn_StrictElapsed(db, loud, t) ==
    IF db > threshold_db THEN FALSE
    ELSE IF loud = None THEN TRUE
    ELSE (t - loud[1]) > quiet_duration_ms

\* is_quiet that takes a level at the threshold for loud
IsQuietOn_AtThresholdLoud(db, loud, t) ==
    IF db >= threshold_db THEN FALSE
    ELSE IF loud = None THEN TRUE
    ELSE (t - loud[1]) >= quiet_duration_ms

\* AudioMonitor.is_quiet on a gate state
IsQuietOn(db, loud, t) ==
    IF db > threshold_db THEN FALSE
    ELSE IF loud = None THEN TRUE
    ELSE (t - loud[1]) >= quiet_duration_ms

is_quiet == IsQuietOn(current_db, last_loud_time, now)

\* _process_db_level that restarts the quiet clock on every sample
process_db_level_AlwaysStamp(db) ==
    [current_db |-> db, last_loud_time |-> Some(now)]

\* _process_db_level that takes a sample at the threshold for loud
process_db_level_AtThresholdLoud(db) ==
    [current_db |-> db,
     last_loud_time |-> IF db >= threshold_db THEN Some(now) ELSE last_loud_time]

\* AudioMonitor._process_db_level: the new (current_db, last_loud_time)
process_db_level(db) ==
    [current_db |-> db,
     last_loud_time |-> IF db > threshold_db THEN Some(now) ELSE last_loud_time]

GateInit ==
    /\ current_db = 0
    /\ last_loud_time = None
    /\ now = 0
    /\ g_op = "init"
    /\ g_last_loud = None
    /\ g_drop_time = None
    /\ g_repeats = 0

\* one sample ingested by the monitor loop
Observe(db) ==
    /\ LET r == process_db_level(db) IN
         /\ current_db' = r.current_db
         /\ last_loud_time' = r.last_loud_time
    /\ g_op' = "observe"
    /\ g_last_loud' = IF db > threshold_db THEN Some(now) ELSE g_last_loud
    /\ g_drop_time' = IF db > threshold_db THEN None
                      ELSE IF current_db > threshold_db THEN Some(now)
                      ELSE g_drop_time
    /\ g_repeats' = IF g_repeats > 0 /\ db = current_db
                    THEN (IF g_repeats < 3 THEN g_repeats + 1 ELSE g_repeats)
                    ELSE 1
    /\ UNCHANGED now
    /\ UNCHANGED <<orch_vars, demo_vars, key_vars, aux_vars>>

\* time passes between two operations on the gate
GateTick ==
    /\ now < MaxTicks * TickMs
    /\ now' = now + TickMs
    /\ g_op' = "tick"
    /\ UNCHANGED <<current_db, last_loud_time, g_last_loud, g_drop_time, g_repeats>>
    /\ UNCHANGED <<orch_vars, demo_vars, key_vars, aux_vars>>

GateNext ==
    \/ \E db \in Levels : Observe(db)
    \/ GateTick

(***************************************************************************)
(* CognitiveEngine.analyze_context                                         *)
(***************************************************************************)
\* what the reasoning collaborator does on one call
FailureOutcomes == {"timeout", "api_error", "bad_json", "not_object"}
SuccessOutcomes == {"speak", "quiet", "quiet_content", "speak_empty", "missing_fields"}
Outcomes == FailureOutcomes \cup SuccessOutcomes

\* CognitiveEngine._fallback_response
fallback_response(error_reason) ==
    [should_speak |-> FALSE,
     emotion |-> "neutral",
     content |-> "",
     reasoning |-> "Fallback due to error",
     error |-> TRUE]

\* the exception raised inside the try block of analyze_context, "none" if it completes:
\* the client call raises on a timeout or an API error, json.loads raises on a payload
\* that is not JSON, result.setdefault raises on a JSON payload that is not an object
ExceptionOf(outcome) ==
    CASE outcome = "timeout" -> "APITimeoutError"
      [] outcome = "api_error" -> "APIError"
      [] outcome = "bad_json" -> "JSONDecodeError"
      [] outcome = "not_object" -> "AttributeError"
      [] OTHER -> "none"

\* "except json.JSONDecodeError" of the inner try
InnerCatches(exc) == exc = "JSONDecodeError"

\* "except Exception" of the outer try: every exception class of ExceptionOf derives from it
OuterCatches(exc) == exc \in {"APITimeoutError", "APIError", "JSONDecodeError", "AttributeError"}

\* an exception that leaves the called function
Raised(exc) == [raised |-> exc]

IsRaised(result) == "raised" \in DOMAIN result

\* dict.setdefault that overwrites a key that is present
SetDefault_Overwrite(rec, key, value) ==
    [k \in DOMAIN rec \cup {key} |-> IF k = key THEN value ELSE rec[k]]

\* dict.setdefault(key, value): the dict afterwards
SetDefault(rec, key, value) ==
    IF key \in DOMAIN rec THEN rec
    ELSE [k \in DOMAIN rec \cup {key} |-> IF k = key THEN value ELSE rec[k]]

\* analyze_context, "Validate required fields" and "Add metadata": the returned dict of
\* a call whose response text parses to the JSON object payload (its metadata has no
\* error entry)
ValidateDecision(payload) ==
    LET r1 == SetDefault(payload, "should_speak", FALSE)
        r2 == SetDefault(r1, "emotion", "neutral")
        r3 == SetDefault(r2, "content", "")
        r4 == SetDefault(r3, "reasoning", "No reasoning provided")
    IN  [k \in DOMAIN r4 \cup {"error"} |-> IF k = "error" THEN FALSE ELSE r4[k]]

\* the JSON object the reasoner returns for each outcome of a completed call
PayloadOf(outcome) ==
    CASE outcome = "speak" ->
           [should_speak |-> TRUE, emotion |-> "cheerful",
            content |-> "Oh, that's such a lovely moment between them.",
            reasoning |-> "pause in dialogue"]
      [] outcome = "quiet" ->
           [should_speak |-> FALSE, emotion |-> "neutral", content |-> "",
            reasoning |-> "dialogue ongoing"]
      [] outcome = "quiet_content" ->
           [should_speak |-> FALSE, emotion |-> "calm",
            content |-> "Things are getting intense...",
            reasoning |-> "dialogue ongoing"]
      [] outcome = "speak_empty" ->
           [should_speak |-> TRUE, emotion |-> "calm", content |-> "",
            reasoning |-> "nothing to add"]
      [] OTHER -> << >>

\* the JSON object of a completed call after the four setdefault calls
ParsedDecision(outcome) == ValidateDecision(PayloadOf(outcome))

\* analyze_context with only the inner handler: what the outer "except Exception" adds
analyze_context_InnerHandlerOnly(outcome) ==
    LET exc == ExceptionOf(outcome) IN
      IF exc = "none" THEN ParsedDecision(outcome)
      ELSE IF InnerCatches(exc) THEN fallback_response("JSON parsing error")
      ELSE Raised(exc)

\* CognitiveEngine.analyze_context: the result of the call for each outcome of it
analyze_context(outcome) ==
    LET exc == ExceptionOf(outcome) IN
      IF exc = "none" THEN ParsedDecision(outcome)
      ELSE IF InnerCatches(exc) THEN fallback_response("JSON parsing error")
      ELSE IF OuterCatches(exc) THEN fallback_response(exc)
      ELSE Raised(exc)

(***************************************************************************)
(* CinemateCareOrchestrator                                                *)
(***************************************************************************)
\* "if loop_count % 30 == 0": the cognition cadence of _main_loop
CognitionPeriod == 30

\* observations the vision worker publishes in one modelled session
MaxObs == 2

\* "self.voice.distress_detected_recently(10)": the distress window of STEP 2, in seconds
DistressWindowS == 10

\* seconds between two modelled instants of the distress clock
OrchTickS == 5

NoUtterance == [text |-> "", style |-> ""]

OrchInit ==
    /\ running = FALSE
    /\ shutdown_event = FALSE
    /\ caption_queue = << >>
    /\ latest_caption = None
    /\ loop_count = 0
    /\ main_pc = "constructed"
    /\ vision_pc = "not_started"
    /\ next_obs = 0
    /\ outage \in BOOLEAN
    /\ last_spoken = NoUtterance
    /\ g_taken = None
    /\ g_newest_at_take = None
    /\ g_fallback_spoken = FALSE
    /\ g_failed_calls = FALSE
    /\ distress_age = None
    /\ g_cycle = [kind |-> "none", distress |-> FALSE, outcome |-> "", decision |-> None,
                  dispatched |-> FALSE, caption |-> None, fresh |-> FALSE,
                  gate_permits |-> TRUE]
    /\ g_fresh = FALSE

\* queue.Queue.put on the caption queue
QueuePut(q, item) == Append(q, item)

\* queue.Queue.get_nowait on a non-empty caption queue: <<item, rest>>
QueueGetNowait(q) == <<Head(q), Tail(q)>>

\* CinemateCareOrchestrator.start up to the call of asyncio.run(self._main_loop())
Start ==
    /\ main_pc = "constructed"
    /\ running' = TRUE
    /\ shutdown_event' = FALSE
    /\ vision_pc' = "capturing"
    /\ last_spoken' = [text |-> "Hello! I'm CineMate Care", style |-> "cheerful"]
    /\ main_pc' = "loop_top"
    /\ UNCHANGED <<caption_queue, latest_caption, loop_count, next_obs, outage,
                   g_taken, g_newest_at_take, g_fallback_spoken, g_failed_calls>>
    /\ UNCHANGED <<distress_age, g_cycle, g_fresh>>
    /\ UNCHANGED <<gate_vars, demo_vars, key_vars, aux_vars>>

\* _vision_worker: one capture cycle whose analysis yields a caption, put on the queue
VisionPublish ==
    /\ vision_pc = "capturing"
    /\ ~shutdown_event
    /\ next_obs < MaxObs
    /\ next_obs' = next_obs + 1
    /\ caption_queue' = QueuePut(caption_queue, next_obs + 1)
    /\ UNCHANGED <<running, shutdown_event, latest_caption, loop_count, main_pc,
                   vision_pc, outage, last_spoken, g_taken, g_newest_at_take,
                   g_fallback_spoken, g_failed_calls>>
    /\ UNCHANGED <<distress_age, g_cycle, g_fresh>>
    /\ UNCHANGED <<gate_vars, demo_vars, key_vars, aux_vars>>

\* _vision_worker: the while condition finds the shutdown event set
VisionStop ==
    /\ vision_pc = "capturing"
    /\ shutdown_event
    /\ vision_pc' = "stopped"
    /\ UNCHANGED <<running, shutdown_event, caption_queue, latest_caption, loop_count,
                   main_pc, next_obs, outage, last_spoken, g_taken, g_newest_at_take,
                   g_fallback_spoken, g_failed_calls>>
    /\ UNCHANGED <<distress_age, g_cycle, g_fresh>>
    /\ UNCHANGED <<gate_vars, demo_vars, key_vars, aux_vars>>

\* _main_loop, top of an iteration and STEP 1: count the iteration, drain one caption
MainGetCaption ==
    /\ main_pc = "loop_top"
    /\ running /\ ~shutdown_event
    /\ loop_count' = (loop_count + 1) % CognitionPeriod
    /\ IF caption_queue # << >>
       THEN LET got == QueueGetNowait(caption_queue) IN
              /\ latest_caption' = Some(got[1])
              /\ caption_queue' = got[2]
              /\ g_taken' = Some(got[1])
              /\ g_newest_at_take' = Some(next_obs)
              /\ g_fresh' = TRUE
       ELSE UNCHANGED <<latest_caption, caption_queue, g_taken, g_newest_at_take, g_fresh>>
    /\ main_pc' = "step2"
    /\ UNCHANGED <<running, shutdown_event, vision_pc, next_obs, outage, last_spoken,
                   g_fallback_spoken, g_failed_calls, distress_age, g_cycle>>
    /\ UNCHANGED <<gate_vars, demo_vars, key_vars, aux_vars>>

\* distress_detected_recently with the comparison turned round
distress_detected_recently_OlderThan(seconds) ==
    IF distress_age = None THEN FALSE ELSE distress_age[1] >= seconds

\* VoiceInterface.distress_detected_recently
distress_detected_recently(seconds) ==
    IF distress_age = None THEN FALSE ELSE distress_age[1] < seconds

\* history record of an iteration that made no reasoner call
CycleWithoutCall(kind) ==
    [kind |-> kind,
     distress |-> (distress_age # None /\ distress_age[1] < 10),
     outcome |-> "", decision |-> None, dispatched |-> FALSE,
     caption |-> None, fresh |-> FALSE, gate_permits |-> TRUE]

\* _main_loop STEP 2: voice.distress_detected_recently(10) is true; sleep and continue
MainDistressSkip ==
    /\ main_pc = "step2"
    /\ distress_detected_recently(DistressWindowS)
    /\ g_cycle' = CycleWithoutCall("distress")
    /\ main_pc' = "loop_top"
    /\ UNCHANGED <<running, shutdown_event, caption_queue, latest_caption, loop_count,
                   vision_pc, next_obs, outage, last_spoken, g_taken, g_newest_at_take,
                   g_fallback_spoken, g_failed_calls, distress_age, g_fresh>>
    /\ UNCHANGED <<gate_vars, demo_vars, key_vars, aux_vars>>

\* the guard of STEP 3 without the test of latest_caption
CognitionDue_NoCaptionTest == loop_count % CognitionPeriod = 0

\* the guard of STEP 3: a caption is known and this is a cognition iteration
CognitionDue == latest_caption # None /\ loop_count % CognitionPeriod = 0

\* the guard of STEP 4 without the test of the content
ShouldDispatch_SpeakFlagOnly(decision) == decision.should_speak

\* the guard of STEP 4
ShouldDispatch(decision) == decision.should_speak /\ decision.content # ""

\* an iteration handler that lets the exception out of _main_loop
AfterIterationError_Propagates == "crashed"

\* "except Exception" inside the while loop of _main_loop: log, sleep 1 s, and go to the
\* next test of the while condition
AfterIterationError == "loop_top"

\* _main_loop STEP 3 and 4: analyze_context, then speak_async if the decision says so;
\* an exception leaving analyze_context is caught by the handler of the iteration
MainCognition ==
    /\ main_pc = "step2"
    /\ ~distress_detected_recently(DistressWindowS)
    /\ CognitionDue
    /\ \E outcome \in (IF outage THEN FailureOutcomes ELSE Outcomes) :
         LET decision == analyze_context(outcome)
             dispatch == ~IsRaised(decision) /\ ShouldDispatch(decision) IN
           /\ g_failed_calls' = (g_failed_calls \/ IsRaised(decision) \/ decision.error)
           /\ IF dispatch
              THEN /\ last_spoken' = [text |-> decision.content, style |-> decision.emotion]
                   /\ g_fallback_spoken' = (g_fallback_spoken \/ decision.error)
              ELSE UNCHANGED <<last_spoken, g_fallback_spoken>>
           /\ g_cycle' = [kind |-> "cognition",
                          distress |-> (distress_age # None /\ distress_age[1] < 10),
                          outcome |-> outcome, decision |-> Some(decision),
                          dispatched |-> dispatch,
                          caption |-> latest_caption, fresh |-> g_fresh,
                          gate_permits |-> is_quiet]
           /\ main_pc' = IF IsRaised(decision) THEN AfterIterationError ELSE "loop_top"
    /\ g_fresh' = FALSE
    /\ UNCHANGED <<running, shutdown_event, caption_queue, latest_caption, loop_count,
                   vision_pc, next_obs, outage, g_taken, g_newest_at_take, distress_age>>
    /\ UNCHANGED <<gate_vars, demo_vars, key_vars, aux_vars>>

\* _main_loop: an iteration without cognition (no caption yet, or not the 30th iteration)
MainNoCognition ==
    /\ main_pc = "step2"
    /\ ~distress_detected_recently(DistressWindowS)
    /\ ~CognitionDue
    /\ g_cycle' = CycleWithoutCall("idle")
    /\ main_pc' = "loop_top"
    /\ UNCHANGED <<running, shutdown_event, caption_queue, latest_caption, loop_count,
                   vision_pc, next_obs, outage, last_spoken, g_taken, g_newest_at_take,
                   g_fallback_spoken, g_failed_calls, distress_age, g_fresh>>
    /\ UNCHANGED <<gate_vars, demo_vars, key_vars, aux_vars>>

\* VoiceInterface._on_recognized for an utterance with a distress keyword: stamps
\* last_distress_time and calls _on_distress, which speaks the comfort message unless
\* its 30 s cooldown (an input here) is running
RecognizedDistress ==
    /\ running
    /\ distress_age' = Some(0)
    /\ \E cooldown_over \in BOOLEAN :
         last_spoken' = IF cooldown_over
                        THEN [text |-> "I noticed you might be feeling overwhelmed.",
                              style |-> "empathetic"]
                        ELSE last_spoken
    /\ UNCHANGED <<running, shutdown_event, caption_queue, latest_caption, loop_count,
                   main_pc, vision_pc, next_obs, outage, g_taken, g_newest_at_take,
                   g_fallback_spoken, g_failed_calls, g_cycle, g_fresh>>
    /\ UNCHANGED <<gate_vars, demo_vars, key_vars, aux_vars>>

\* time passes since the last distress utterance
DistressTick ==
    /\ distress_age # None
    /\ distress_age[1] < DistressWindowS
    /\ distress_age' = Some(IF distress_age[1] + OrchTickS >= DistressWindowS
                            THEN DistressWindowS ELSE distress_age[1] + OrchTickS)
    /\ UNCHANGED <<running, shutdown_event, caption_queue, latest_caption, loop_count,
                   main_pc, vision_pc, next_obs, outage, last_spoken, g_taken,
                   g_newest_at_take, g_fallback_spoken, g_failed_calls, g_cycle, g_fresh>>
    /\ UNCHANGED <<gate_vars, demo_vars, key_vars, aux_vars>>

\* CinemateCareOrchestrator.stop, called from the signal handler
Stop ==
    /\ running
    /\ running' = FALSE
    /\ shutdown_event' = TRUE
    /\ last_spoken' = [text |-> "Goodbye! It was lovely watching with you. Take care!",
                       style |-> "empathetic"]
    /\ main_pc' = "stopped"
    /\ UNCHANGED <<caption_queue, latest_caption, loop_count, vision_pc, next_obs,
                   outage, g_taken, g_newest_at_take, g_fallback_spoken, g_failed_calls>>
    /\ UNCHANGED <<distress_age, g_cycle, g_fresh>>
    /\ UNCHANGED <<gate_vars, demo_vars, key_vars, aux_vars>>

\* _main_loop: a call made inside the try block of an iteration raises an exception:
\* the queue handling of STEP 1, or the executor call of the reasoner or of the
\* synthesizer in STEP 3 and 4
MainIterationError(site) ==
    /\ IF site = "queue"
       THEN /\ main_pc = "loop_top"
            /\ running /\ ~shutdown_event
            /\ loop_count' = (loop_count + 1) % CognitionPeriod
       ELSE /\ main_pc = "step2"
            /\ ~distress_detected_recently(DistressWindowS)
            /\ CognitionDue
            /\ UNCHANGED loop_count
    /\ g_cycle' = [CycleWithoutCall("error") EXCEPT !.distress = FALSE]
    /\ main_pc' = AfterIterationError
    /\ UNCHANGED <<running, shutdown_event, caption_queue, latest_caption, vision_pc,
                   next_obs, outage, last_spoken, g_taken, g_newest_at_take,
                   g_fallback_spoken, g_failed_calls, distress_age, g_fresh>>
    /\ UNCHANGED <<gate_vars, demo_vars, key_vars, aux_vars>>

MainLoopNext ==
    \/ MainGetCaption
    \/ MainDistressSkip
    \/ MainCognition
    \/ MainNoCognition
    \/ \E site \in {"queue", "reasoner", "synthesizer"} : MainIterationError(site)

\* the monitor thread of AudioMonitor.start beside the orchestrator: one sample ingested
\* by _process_db_level (the history of the gate's own properties is not kept here)
MonitorSample(db) ==
    /\ LET r == process_db_level(db) IN
         /\ current_db' = r.current_db
         /\ last_loud_time' = r.last_loud_time
    /\ UNCHANGED <<now, g_op, g_last_loud, g_drop_time, g_repeats>>
    /\ UNCHANGED <<orch_vars, demo_vars, key_vars, aux_vars>>

\* time passes for the monitor thread beside the orchestrator
MonitorTick ==
    /\ now < MaxTicks * TickMs
    /\ now' = now + TickMs
    /\ UNCHANGED <<current_db, last_loud_time, g_op, g_last_loud, g_drop_time, g_repeats>>
    /\ UNCHANGED <<orch_vars, demo_vars, key_vars, aux_vars>>

\* a running session of the orchestrator with a loudness monitor beside it, without
\* distress utterances and up to the stop request
OrchGateNext ==
    \/ Start
    \/ VisionPublish
    \/ MainGetCaption
    \/ MainCognition
    \/ MainNoCognition
    \/ \E db \in Levels : MonitorSample(db)
    \/ MonitorTick

OrchNext ==
    \/ Start
    \/ VisionPublish
    \/ VisionStop
    \/ MainLoopNext
    \/ RecognizedDistress
    \/ DistressTick
    \/ Stop

(***************************************************************************)
(* DemoMode / DemoController                                               *)
(***************************************************************************)
\* FALLBACK_RESPONSES
FALLBACK_RESPONSES ==
    [scene_description |-> "I can see an emotional scene unfolding here.",
     question_answer   |-> "I'm happy to help describe what's happening.",
     distress          |-> "I noticed you might need a moment.",
     greeting          |-> "Hello! I'm CineMate Care, your friendly movie companion.",
     farewell          |-> "It was lovely watching with you.",
     generic           |-> "That's an interesting scene."]

\* DEMO_CLIP_RESPONSES in dictionary order; "240+" is the entry without an end
DEMO_CLIP_RESPONSES ==
    << [start |-> 0,   end |-> Some(10),  emotion |-> "cheerful",
        response |-> "Oh, what a wonderful beginning!"],
       [start |-> 10,  end |-> Some(30),  emotion |-> "cheerful",
        response |-> "She's showing him her adventure book!"],
       [start |-> 30,  end |-> Some(60),  emotion |-> "warm",
        response |-> "Look at them growing up together"],
       [start |-> 60,  end |-> Some(120), emotion |-> "empathetic",
        response |-> "They're saving pennies for their dream trip"],
       [start |-> 120, end |-> Some(180), emotion |-> "empathetic",
        response |-> "This is a tender moment."],
       [start |-> 180, end |-> Some(240), emotion |-> "empathetic",
        response |-> "This is a difficult scene."],
       [start |-> 240, end |-> None,      emotion |-> "empathetic",
        response |-> "Carl is sitting alone now."] >>

\* granularity and horizon of the modelled demo clock (seconds)
DemoTickS == 10
MaxDemoTicks == 25

\* DemoMode.get_elapsed_seconds
get_elapsed_seconds ==
    IF clip_start_time = None THEN 0 ELSE demo_now - clip_start_time[1]

\* the test of a time range with the end of the range included
RangeMatches_EndIncluded(e, seconds) ==
    IF e.end # None
    THEN e.start <= seconds /\ seconds <= e.end[1]
    ELSE seconds >= e.start

\* the test of one time range in the loop of get_response_for_timestamp
RangeMatches(e, seconds) ==
    IF e.end # None
    THEN e.start <= seconds /\ seconds < e.end[1]
    ELSE seconds >= e.start

\* DemoMode.get_response_for_timestamp: the first matching range, else generic
get_response_for_timestamp(seconds) ==
    LET hits == {i \in 1..Len(DEMO_CLIP_RESPONSES) :
                    RangeMatches(DEMO_CLIP_RESPONSES[i], seconds)} IN
      IF hits # {}
      THEN LET first == CHOOSE i \in hits : \A j \in hits : i <= j IN
             [emotion |-> DEMO_CLIP_RESPONSES[first].emotion,
              response |-> DEMO_CLIP_RESPONSES[first].response]
      ELSE [emotion |-> "neutral", response |-> FALLBACK_RESPONSES.generic]

\* get_response that passes on any azure_response it is given, whatever its content
get_response_NoContentTest(azure_response) ==
    IF azure_response # None
    THEN [should_speak |-> azure_response[1].should_speak,
          emotion |-> azure_response[1].emotion,
          content |-> azure_response[1].content,
          source |-> "azure"]
    ELSE [should_speak |-> TRUE,
          emotion |-> "calm",
          content |-> FALLBACK_RESPONSES.scene_description,
          source |-> "fallback"]

\* get_response that goes to the category table without looking at the demo clip
get_response_TableOnly(azure_response) ==
    IF azure_response # None /\ azure_response[1].content # ""
    THEN [should_speak |-> azure_response[1].should_speak,
          emotion |-> azure_response[1].emotion,
          content |-> azure_response[1].content,
          source |-> "azure"]
    ELSE [should_speak |-> TRUE,
          emotion |-> "calm",
          content |-> FALLBACK_RESPONSES.scene_description,
          source |-> "fallback"]

\* DemoController.get_response; azure_response is None or Some(decision)
get_response(azure_response) ==
    IF azure_response # None /\ azure_response[1].content # ""
    THEN [should_speak |-> azure_response[1].should_speak,
          emotion |-> azure_response[1].emotion,
          content |-> azure_response[1].content,
          source |-> "azure"]
    ELSE IF is_demo_active
    THEN LET data == get_response_for_timestamp(get_elapsed_seconds) IN
           [should_speak |-> TRUE,
            emotion |-> data.emotion,
            content |-> data.response,
            source |-> "demo_mode"]
    ELSE [should_speak |-> TRUE,
          emotion |-> "calm",
          content |-> FALLBACK_RESPONSES.scene_description,
          source |-> "fallback"]

DemoInit ==
    /\ is_demo \in BOOLEAN
    /\ is_demo_active = FALSE
    /\ clip_start_time = None
    /\ demo_now = 0
    /\ demo_resp = [should_speak |-> FALSE, emotion |-> "", content |-> "", source |-> ""]
    /\ demo_arg = "none"
    /\ d_op = "init"

\* DemoMode.start_demo_clip (operator, or DemoController.start with DEMO_MODE=true)
start_demo_clip ==
    /\ clip_start_time' = Some(demo_now)
    /\ is_demo_active' = TRUE
    /\ d_op' = "start_demo_clip"
    /\ UNCHANGED <<is_demo, demo_now, demo_resp, demo_arg>>
    /\ UNCHANGED <<gate_vars, orch_vars, key_vars, aux_vars>>

\* a stop that leaves the start time of the clip in place
stop_demo_clip_KeepsStart ==
    /\ is_demo_active' = FALSE
    /\ d_op' = "stop_demo_clip"
    /\ UNCHANGED <<is_demo, clip_start_time, demo_now, demo_resp, demo_arg>>
    /\ UNCHANGED <<gate_vars, orch_vars, key_vars, aux_vars>>

\* DemoMode.stop_demo_clip (operator, or DemoController.stop)
stop_demo_clip ==
    /\ is_demo_active' = FALSE
    /\ clip_start_time' = None
    /\ d_op' = "stop_demo_clip"
    /\ UNCHANGED <<is_demo, demo_now, demo_resp, demo_arg>>
    /\ UNCHANGED <<gate_vars, orch_vars, key_vars, aux_vars>>

\* DemoController.start
ControllerStart ==
    /\ IF is_demo
       THEN /\ clip_start_time' = Some(demo_now)
            /\ is_demo_active' = TRUE
       ELSE UNCHANGED <<clip_start_time, is_demo_active>>
    /\ d_op' = "controller_start"
    /\ UNCHANGED <<is_demo, demo_now, demo_resp, demo_arg>>
    /\ UNCHANGED <<gate_vars, orch_vars, key_vars, aux_vars>>

\* DemoController.get_response(None)
GetResponseNone ==
    /\ demo_resp' = get_response(None)
    /\ demo_arg' = "None"
    /\ d_op' = "get_response"
    /\ UNCHANGED <<is_demo, is_demo_active, clip_start_time, demo_now>>
    /\ UNCHANGED <<gate_vars, orch_vars, key_vars, aux_vars>>

\* DemoController.get_response(decision) on what analyze_context returned
GetResponseOf(outcome) ==
    /\ demo_resp' = get_response(Some(analyze_context(outcome)))
    /\ demo_arg' = outcome
    /\ d_op' = "get_response"
    /\ UNCHANGED <<is_demo, is_demo_active, clip_start_time, demo_now>>
    /\ UNCHANGED <<gate_vars, orch_vars, key_vars, aux_vars>>

\* WizardOfOz._on_spacebar: what is spoken, through speak_demo_response while the clip is
\* active, else the scene_description entry
OnSpacebar ==
    /\ demo_resp' = IF is_demo_active
                    THEN LET data == get_response_for_timestamp(get_elapsed_seconds) IN
                           [should_speak |-> TRUE, emotion |-> data.emotion,
                            content |-> data.response, source |-> "wizard"]
                    ELSE [should_speak |-> TRUE, emotion |-> "calm",
                          content |-> FALLBACK_RESPONSES.scene_description,
                          source |-> "wizard"]
    /\ demo_arg' = "none"
    /\ d_op' = "spacebar"
    /\ UNCHANGED <<is_demo, is_demo_active, clip_start_time, demo_now>>
    /\ UNCHANGED <<gate_vars, orch_vars, key_vars, aux_vars>>

\* CognitiveEngine.analyze_context whose call of the reasoner fails: the decision of
\* the except branches, as the orchestration loop receives it
ResolveFailure(outcome) ==
    /\ LET decision == analyze_context(outcome) IN
         demo_resp' = [should_speak |-> decision.should_speak,
                       emotion |-> decision.emotion,
                       content |-> decision.content,
                       source |-> "fallback_response"]
    /\ demo_arg' = outcome
    /\ d_op' = "analyze_context"
    /\ UNCHANGED <<is_demo, is_demo_active, clip_start_time, demo_now>>
    /\ UNCHANGED <<gate_vars, orch_vars, key_vars, aux_vars>>

\* time passes between two operations on the demo controller
DemoTick ==
    /\ demo_now < MaxDemoTicks * DemoTickS
    /\ demo_now' = demo_now + DemoTickS
    /\ d_op' = "tick"
    /\ UNCHANGED <<is_demo, is_demo_active, clip_start_time, demo_resp, demo_arg>>
    /\ UNCHANGED <<gate_vars, orch_vars, key_vars, aux_vars>>

DemoNext ==
    \/ start_demo_clip
    \/ stop_demo_clip
    \/ ControllerStart
    \/ GetResponseNone
    \/ OnSpacebar
    \/ \E outcome \in Outcomes : GetResponseOf(outcome)
    \/ \E outcome \in FailureOutcomes : ResolveFailure(outcome)
    \/ DemoTick

(***************************************************************************)
(* VisionCapture: keyframe detection                                       *)
(***************************************************************************)
\* ssim_threshold of VisionCapture.__init__ (0.95), in hundredths
ssim_threshold == 95

\* values of max_interval_seconds the detector is constructed with (default 15.0)
MaxIntervals == {10, 15}

\* seconds between two modelled instants of time.time()
KeyTickS == 5

\* instants modelled after the first one
MaxKeyTicks == 4

\* frames handed to the detector: "Atint" differs from "A" in colour only, "A2" is a
\* slightly changed "A", "B" another scene, "S" a frame of another resolution, "X" a
\* buffer cv2.cvtColor rejects
Frames == {"A", "Atint", "A2", "B", "S", "X"}

\* cv2.cvtColor(frame, cv2.COLOR_BGR2GRAY) returns for this frame
Convertible(frame) == frame # "X"

\* cv2.cvtColor(frame, cv2.COLOR_BGR2GRAY): the single-channel image of a frame
cvtColor(frame) ==
    CASE frame \in {"A", "Atint"} -> "a"
      [] frame = "A2" -> "a2"
      [] frame = "B" -> "b"
      [] OTHER -> "s"

\* skimage ssim raises on two images of different shapes
SsimRaises(g1, g2) == (g1 = "s") # (g2 = "s")

\* skimage ssim of two images of one shape, in hundredths
ssim(g1, g2) ==
    IF g1 = g2 THEN 100
    ELSE IF {g1, g2} = {"a", "a2"} THEN 95
    ELSE IF {g1, g2} = {"a2", "b"} THEN 94
    ELSE 40

\* is_keyframe, the test of case 2 with a strict comparison
IntervalElapsed_Strict(time_since_last) == time_since_last > max_interval_seconds

\* is_keyframe, case 2: "time_since_last >= self.max_interval_seconds"
IntervalElapsed(time_since_last) == time_since_last >= max_interval_seconds

\* is_keyframe, the test of case 3 with a non-strict comparison
SceneChanged_AtThreshold(similarity) == similarity <= ssim_threshold

\* is_keyframe, case 3: "similarity < self.ssim_threshold"
SceneChanged(similarity) == similarity < ssim_threshold

\* a True return that keeps the old reference frame
Accepted_NotRemembered(current_gray) ==
    [verdict |-> "true", prev |-> previous_frame_gray, last |-> key_now, failed |-> "none"]

\* is_keyframe, the three "return True" paths: remember frame and time
Accepted(current_gray) ==
    [verdict |-> "true", prev |-> Some(current_gray), last |-> key_now, failed |-> "none"]

\* a False return that stamps the analysis time
Rejected_Stamped(failed) ==
    [verdict |-> "false", prev |-> previous_frame_gray, last |-> key_now, failed |-> failed]

\* is_keyframe, the two "return False" paths
Rejected(failed) ==
    [verdict |-> "false", prev |-> previous_frame_gray, last |-> last_analysis_time,
     failed |-> failed]

\* VisionCapture.is_keyframe: the verdict and the detector state it leaves; the
\* conversion runs before every case and outside the try block
is_keyframe(frame) ==
    IF ~Convertible(frame)
    THEN [verdict |-> "raised", prev |-> previous_frame_gray, last |-> last_analysis_time,
          failed |-> "convert"]
    ELSE LET current_gray == cvtColor(frame) IN
           IF previous_frame_gray = None THEN Accepted(current_gray)
           ELSE IF IntervalElapsed(key_now - last_analysis_time) THEN Accepted(current_gray)
           ELSE IF SsimRaises(previous_frame_gray[1], current_gray) THEN Rejected("ssim")
           ELSE IF SceneChanged(ssim(previous_frame_gray[1], current_gray))
                THEN Accepted(current_gray)
           ELSE Rejected("none")

NoEval == [kind |-> "none", frame |-> "", verdict |-> "", failed |-> "none",
           pre_prev |-> None, pre_last |-> 0, pre_accept |-> None, at |-> 0,
           first |-> FALSE]

KeyInit ==
    /\ kf_pc = "unconstructed"
    /\ max_interval_seconds = 15
    /\ previous_frame_gray = None
    /\ last_analysis_time = 0
    /\ key_now = 0
    /\ g_eval = NoEval
    /\ g_prev_eval = NoEval
    /\ g_last_accept = None

\* VisionCapture.__init__ with max_interval_seconds = T, followed by the start of the
\* capture loop of _vision_worker
VisionCaptureInit(T) ==
    /\ kf_pc = "unconstructed"
    /\ max_interval_seconds' = T
    /\ previous_frame_gray' = None
    /\ last_analysis_time' = 0
    /\ kf_pc' = "capturing"
    /\ UNCHANGED <<key_now, g_eval, g_prev_eval, g_last_accept>>
    /\ UNCHANGED <<gate_vars, orch_vars, demo_vars, aux_vars>>

\* _vision_worker: one cycle of the capture loop that calls process_frame(frame), which
\* calls is_keyframe outside its try block; an exception leaving is_keyframe reaches
\* the handler outside the while loop and ends the worker
WorkerProcessFrame(frame) ==
    /\ kf_pc = "capturing"
    /\ LET r == is_keyframe(frame) IN
         /\ previous_frame_gray' = r.prev
         /\ last_analysis_time' = r.last
         /\ kf_pc' = IF r.verdict = "raised" THEN "stopped" ELSE "capturing"
         /\ g_eval' = [kind |-> "evaluate", frame |-> frame, verdict |-> r.verdict,
                       failed |-> r.failed, pre_prev |-> previous_frame_gray,
                       pre_last |-> last_analysis_time, pre_accept |-> g_last_accept,
                       at |-> key_now, first |-> (g_eval.kind = "none")]
         /\ g_last_accept' = IF r.verdict = "true" THEN Some(key_now) ELSE g_last_accept
    /\ g_prev_eval' = g_eval
    /\ UNCHANGED <<max_interval_seconds, key_now>>
    /\ UNCHANGED <<gate_vars, orch_vars, demo_vars, aux_vars>>

\* time passes between two cycles of the capture loop
KeyTick ==
    /\ key_now < MaxKeyTicks * KeyTickS
    /\ key_now' = key_now + KeyTickS
    /\ UNCHANGED <<kf_pc, max_interval_seconds, previous_frame_gray, last_analysis_time,
                   g_eval, g_prev_eval, g_last_accept>>
    /\ UNCHANGED <<gate_vars, orch_vars, demo_vars, aux_vars>>

KeyNext ==
    \/ \E T \in MaxIntervals : VisionCaptureInit(T)
    \/ \E frame \in Frames : WorkerProcessFrame(frame)
    \/ KeyTick

(***************************************************************************)
(* CognitiveEngine.analyze_context: one call and its return value          *)
(***************************************************************************)
DecisionFields == {"should_speak", "emotion", "content", "reasoning"}

\* what the JSON object of the reasoner may hold per field: << >> = the key is missing
PayloadOptions ==
    [should_speak : {None, Some(TRUE), Some(FALSE)},
     emotion      : {None, Some("cheerful"), Some("calm"), Some("neutral")},
     content      : {None, Some(""), Some("What a lovely scene.")},
     reasoning    : {None, Some(""), Some("pause in dialogue")}]

\* the JSON object with the keys that are not missing
MakePayload(opts) ==
    [k \in {f \in DecisionFields : opts[f] # None} |-> opts[k][1]]

EngInit ==
    /\ eng_payload = None
    /\ eng_result = None

\* analyze_context for a call that completes with a JSON object
AnalyzeObject(opts) ==
    /\ eng_payload' = Some(MakePayload(opts))
    /\ eng_result' = Some(ValidateDecision(MakePayload(opts)))
    /\ UNCHANGED <<gate_vars, orch_vars, demo_vars, key_vars, voice_vars, cam_vars, ts_vars, ext_vars>>

\* analyze_context for a call that fails
AnalyzeFailing(outcome) ==
    /\ eng_payload' = None
    /\ eng_result' = Some(analyze_context(outcome))
    /\ UNCHANGED <<gate_vars, orch_vars, demo_vars, key_vars, voice_vars, cam_vars, ts_vars, ext_vars>>

EngNext ==
    \/ \E opts \in PayloadOptions : AnalyzeObject(opts)
    \/ \E outcome \in FailureOutcomes : AnalyzeFailing(outcome)

(***************************************************************************)
(* VoiceInterface.speak_async and the threads that call it                 *)
(***************************************************************************)
\* iterations of the main loop counted after a dispatch
MaxVoiceCycles == 3

\* how the synthesis of one utterance ends: SynthesizingAudioCompleted, Canceled, or an
\* exception of the SDK call
SynthResults == {"completed", "canceled", "exception"}

\* speak_async returns True only for a completed synthesis
SpeakReturn(result) == result = "completed"

VoiceInit ==
    /\ synth = {}
    /\ is_speaking = FALSE
    /\ vloop_pc = "iterating"
    /\ cb_pc = "idle"
    /\ v_cycles = 0
    /\ v_last = [caller |-> "", result |-> "", returned |-> FALSE]

\* _main_loop: one iteration that dispatches nothing
LoopCycle ==
    /\ vloop_pc = "iterating"
    /\ v_cycles' = IF v_cycles < MaxVoiceCycles THEN v_cycles + 1 ELSE v_cycles
    /\ UNCHANGED <<synth, is_speaking, vloop_pc, cb_pc, v_last>>
    /\ UNCHANGED <<gate_vars, orch_vars, demo_vars, key_vars, eng_vars, cam_vars, ts_vars, ext_vars>>

\* _main_loop STEP 4: "await run_in_executor(None, self.voice.speak_async, content,
\* emotion, False)"; speak_async sets is_speaking and waits in
\* speak_ssml_async(ssml).get() for the synthesis to end
LoopDispatch ==
    /\ vloop_pc = "iterating"
    /\ synth' = synth \cup {"loop"}
    /\ is_speaking' = TRUE
    /\ vloop_pc' = "awaiting_speech"
    /\ v_cycles' = 0
    /\ UNCHANGED <<cb_pc, v_last>>
    /\ UNCHANGED <<gate_vars, orch_vars, demo_vars, key_vars, eng_vars, cam_vars, ts_vars, ext_vars>>

\* _on_wake_word or _on_distress (kind) on the recognizer thread: speak_async(response)
CallbackSpeak(kind) ==
    /\ cb_pc = "idle"
    /\ synth' = synth \cup {"recognizer"}
    /\ is_speaking' = TRUE
    /\ cb_pc' = kind
    /\ UNCHANGED <<vloop_pc, v_cycles, v_last>>
    /\ UNCHANGED <<gate_vars, orch_vars, demo_vars, key_vars, eng_vars, cam_vars, ts_vars, ext_vars>>

\* the synthesis of a caller ends and its speak_async call returns: every return path
\* clears is_speaking; the awaiting loop or the callback thread goes on
SynthFinish(caller, result) ==
    /\ caller \in synth
    /\ synth' = synth \ {caller}
    /\ is_speaking' = FALSE
    /\ v_last' = [caller |-> caller, result |-> result, returned |-> SpeakReturn(result)]
    /\ IF caller = "loop"
       THEN vloop_pc' = "iterating" /\ UNCHANGED cb_pc
       ELSE cb_pc' = "idle" /\ UNCHANGED vloop_pc
    /\ UNCHANGED v_cycles
    /\ UNCHANGED <<gate_vars, orch_vars, demo_vars, key_vars, eng_vars, cam_vars, ts_vars, ext_vars>>

VoiceNext ==
    \/ LoopCycle
    \/ LoopDispatch
    \/ \E kind \in {"wake", "distress"} : CallbackSpeak(kind)
    \/ \E caller \in {"loop", "recognizer"}, result \in SynthResults :
          SynthFinish(caller, result)

(***************************************************************************)
(* VisionCapture camera and scene analysis, driven by _vision_worker       *)
(***************************************************************************)
\* self.max_consecutive_failures
max_consecutive_failures == 10

\* stop_after_attempt(3) of the retry decorator of analyze_frame
MaxAttempts == 3

\* observations counted on the caption queue
MaxPublished == 2

\* what the three attempts of one start_camera call end in
OpenOutcomes == {"opened", "not_opened", "exception"}

\* what one call of vision_client.analyze ends in
AnalyzeOutcomes == {"ok", "ConnectionError", "TimeoutError", "HttpResponseError"}

\* VisionCapture.start_camera: the existing capture is released and cleared, a new one
\* is created; the failure counter is reset only when the camera opens
start_camera(outcome, failures) ==
    CASE outcome = "opened" -> [ok |-> TRUE, cap |-> "open", failures |-> 0]
      [] outcome = "not_opened" -> [ok |-> FALSE, cap |-> "unopened", failures |-> failures]
      [] OTHER -> [ok |-> FALSE, cap |-> "none", failures |-> failures]

\* VisionCapture.stop_camera
stop_camera == "none"

\* get_frame, the reconnection test with a strict comparison
TooManyFailures_Strict(failures) == failures > max_consecutive_failures

\* get_frame: "self.consecutive_failures >= self.max_consecutive_failures"
TooManyFailures(failures) == failures >= max_consecutive_failures

\* VisionCapture.get_frame for the outcomes env of its camera calls: the returned flag,
\* the camera and counter it leaves, and whether it reconnected after failed reads
get_frame(env) ==
    LET first == IF cap # "open"
                 THEN start_camera(env.open1, consecutive_failures)
                 ELSE [ok |-> TRUE, cap |-> cap, failures |-> consecutive_failures] IN
      IF ~first.ok
      THEN [ret |-> FALSE, cap |-> first.cap, failures |-> first.failures,
            reconnect |-> FALSE]
      ELSE IF env.read1
      THEN [ret |-> TRUE, cap |-> first.cap, failures |-> 0, reconnect |-> FALSE]
      ELSE LET failed == first.failures + 1 IN
             IF TooManyFailures(failed)
             THEN LET again == start_camera(env.open2, failed) IN
                    [ret |-> again.ok /\ env.read2, cap |-> again.cap,
                     failures |-> again.failures, reconnect |-> TRUE]
             ELSE [ret |-> FALSE, cap |-> first.cap, failures |-> failed,
                   reconnect |-> FALSE]

\* a retry predicate that ignores the exception type
ShouldRetry_AnyError(outcome, made) == outcome # "ok" /\ made < MaxAttempts

\* the retry decorator of analyze_frame: retry_if_exception_type((ConnectionError,
\* TimeoutError)) and stop_after_attempt(3), after made calls
ShouldRetry(outcome, made) ==
    outcome \in {"ConnectionError", "TimeoutError"} /\ made < MaxAttempts

\* process_frame that hands back the previous caption when the analysis fails
process_frame_result_Stale(outcome) == "response"

\* VisionCapture.process_frame for an accepted keyframe: the response of analyze_frame,
\* or None when analyze_frame raised
process_frame_result(outcome) == IF outcome = "ok" THEN "response" ELSE "none"

NoRequest == [verdict |-> "", outcome |-> "", calls |-> 0, pushed |-> FALSE]

CamInit ==
    /\ cap = "none"
    /\ consecutive_failures = 0
    /\ vw_pc = "not_started"
    /\ vw_shutdown = FALSE
    /\ attempts = 0
    /\ published = 0
    /\ g_frame = [ret |-> FALSE, reconnect |-> FALSE, pre_failures |-> 0,
                  pre_cap |-> "none", read1 |-> FALSE, calls |-> 0]
    /\ g_request = NoRequest

\* _vision_worker up to the while loop: start_camera, return when it fails
WorkerStart(outcome) ==
    /\ vw_pc = "not_started"
    /\ LET r == start_camera(outcome, consecutive_failures) IN
         /\ cap' = r.cap
         /\ consecutive_failures' = r.failures
         /\ vw_pc' = IF r.ok THEN "loop" ELSE "returned"
    /\ UNCHANGED <<vw_shutdown, attempts, published, g_frame, g_request>>
    /\ UNCHANGED <<gate_vars, orch_vars, demo_vars, key_vars, eng_vars, voice_vars, ts_vars, ext_vars>>

\* _vision_worker: the while condition holds, get_frame is called
WorkerGetFrame(env) ==
    /\ vw_pc = "loop"
    /\ ~vw_shutdown
    /\ LET r == get_frame(env) IN
         /\ cap' = r.cap
         /\ consecutive_failures' = r.failures
         /\ vw_pc' = IF r.ret THEN "have_frame" ELSE "loop"
         /\ g_frame' = [ret |-> r.ret, reconnect |-> r.reconnect,
                        pre_failures |-> consecutive_failures, pre_cap |-> cap,
                        read1 |-> env.read1,
                        calls |-> IF g_frame.calls < 2 THEN g_frame.calls + 1 ELSE 2]
    /\ UNCHANGED <<vw_shutdown, attempts, published, g_request>>
    /\ UNCHANGED <<gate_vars, orch_vars, demo_vars, key_vars, eng_vars, voice_vars, ts_vars, ext_vars>>

\* _vision_worker with a frame: nothing to do before MIN_ANALYSIS_INTERVAL has passed;
\* else process_frame, whose is_keyframe call returns verdict (SpecKey) and whose
\* exception ends the worker through the handler outside the loop and the finally block
WorkerHandleFrame(due, verdict) ==
    /\ vw_pc = "have_frame"
    /\ IF ~due
       THEN vw_pc' = "loop" /\ UNCHANGED <<cap, attempts, g_request>>
       ELSE /\ g_request' = [verdict |-> verdict, outcome |-> "", calls |-> 0,
                             pushed |-> FALSE]
            /\ attempts' = 0
            /\ vw_pc' = CASE verdict = "true" -> "analysing"
                           [] verdict = "false" -> "loop"
                           [] OTHER -> "stopped"
            /\ cap' = IF verdict = "raised" THEN stop_camera ELSE cap
    /\ UNCHANGED <<consecutive_failures, vw_shutdown, published, g_frame>>
    /\ UNCHANGED <<gate_vars, orch_vars, demo_vars, key_vars, eng_vars, voice_vars, ts_vars, ext_vars>>

\* analyze_frame: one call of the vision service; it is retried, or process_frame
\* returns and the worker puts the response on the caption queue
WorkerAnalyzeCall(outcome) ==
    /\ vw_pc = "analysing"
    /\ attempts' = attempts + 1
    /\ IF ShouldRetry(outcome, attempts + 1)
       THEN /\ g_request' = [g_request EXCEPT !.outcome = outcome, !.calls = attempts + 1]
            /\ UNCHANGED <<vw_pc, published>>
       ELSE LET result == process_frame_result(outcome) IN
              /\ published' = IF result = "response" /\ published < MaxPublished
                               THEN published + 1 ELSE published
              /\ g_request' = [g_request EXCEPT !.outcome = outcome,
                                                !.calls = attempts + 1,
                                                !.pushed = (result = "response")]
              /\ vw_pc' = "loop"
    /\ UNCHANGED <<cap, consecutive_failures, vw_shutdown, g_frame>>
    /\ UNCHANGED <<gate_vars, orch_vars, demo_vars, key_vars, eng_vars, voice_vars, ts_vars, ext_vars>>

\* _vision_worker: the while condition finds the shutdown event set; finally: stop_camera
WorkerSeesShutdown ==
    /\ vw_pc = "loop"
    /\ vw_shutdown
    /\ cap' = stop_camera
    /\ vw_pc' = "stopped"
    /\ UNCHANGED <<consecutive_failures, vw_shutdown, attempts, published, g_frame,
                   g_request>>
    /\ UNCHANGED <<gate_vars, orch_vars, demo_vars, key_vars, eng_vars, voice_vars, ts_vars, ext_vars>>

\* CinemateCareOrchestrator.stop: running is cleared and the shutdown event set
StopRequested ==
    /\ vw_pc # "not_started"
    /\ ~vw_shutdown
    /\ vw_shutdown' = TRUE
    /\ UNCHANGED <<cap, consecutive_failures, vw_pc, attempts, published, g_frame,
                   g_request>>
    /\ UNCHANGED <<gate_vars, orch_vars, demo_vars, key_vars, eng_vars, voice_vars, ts_vars, ext_vars>>

\* stop() gives up the join of the vision thread after its 2 s timeout while the worker
\* is inside an analysis request, and the process exits: the daemon thread ends there,
\* its finally block is not run
ProcessExit ==
    /\ vw_shutdown
    /\ vw_pc = "analysing"
    /\ vw_pc' = "killed"
    /\ UNCHANGED <<cap, consecutive_failures, vw_shutdown, attempts, published, g_frame,
                   g_request>>
    /\ UNCHANGED <<gate_vars, orch_vars, demo_vars, key_vars, eng_vars, voice_vars, ts_vars, ext_vars>>

WorkerNext ==
    \/ \E outcome \in OpenOutcomes : WorkerStart(outcome)
    \/ \E env \in [open1 : OpenOutcomes, read1 : BOOLEAN,
                     open2 : OpenOutcomes, read2 : BOOLEAN] : WorkerGetFrame(env)
    \/ \E due \in BOOLEAN, verdict \in {"true", "false", "raised"} :
          WorkerHandleFrame(due, verdict)
    \/ \E outcome \in AnalyzeOutcomes : WorkerAnalyzeCall(outcome)
    \/ WorkerSeesShutdown

CamNext ==
    \/ WorkerNext
    \/ StopRequested
    \/ ProcessExit

(***************************************************************************)
(* DemoMode.get_response_for_timestamp on a given timestamp                *)
(***************************************************************************)
\* largest timestamp asked for (seconds)
MaxSeconds == 250

TsInit ==
    /\ ts_seconds = None
    /\ ts_result = [emotion |-> "", response |-> ""]

\* get_response_for_timestamp(seconds), as speak_demo_response(timestamp) calls it
ResponseForTimestamp(seconds) ==
    /\ ts_seconds' = Some(seconds)
    /\ ts_result' = get_response_for_timestamp(seconds)
    /\ UNCHANGED <<gate_vars, orch_vars, demo_vars, key_vars, eng_vars, voice_vars,
                   cam_vars, ext_vars>>

TsNext == \E seconds \in 0..MaxSeconds : ResponseForTimestamp(seconds)

(***************************************************************************)
(* WizardOfOz: function keys and trigger_manual                            *)
(***************************************************************************)
\* WizardOfOz.quick_responses: key -> (response type, text)
quick_responses ==
    [key \in {"f1", "f2", "f3", "f4", "f5", "f6"} |->
       CASE key = "f1" -> [type |-> "greeting", text |-> FALLBACK_RESPONSES.greeting]
         [] key = "f2" -> [type |-> "scene", text |-> FALLBACK_RESPONSES.scene_description]
         [] key = "f3" -> [type |-> "question", text |-> FALLBACK_RESPONSES.question_answer]
         [] key = "f4" -> [type |-> "distress", text |-> FALLBACK_RESPONSES.distress]
         [] key = "f5" -> [type |-> "farewell", text |-> FALLBACK_RESPONSES.farewell]
         [] OTHER -> [type |-> "generic", text |-> FALLBACK_RESPONSES.generic]]

\* WizardOfOz.response_emotions
response_emotions ==
    [greeting |-> "cheerful", scene |-> "calm", question |-> "neutral",
     distress |-> "empathetic", farewell |-> "warm", generic |-> "neutral"]

\* response_emotions.get(response_type, "neutral")
EmotionOf(response_type) ==
    IF response_type \in DOMAIN response_emotions
    THEN response_emotions[response_type] ELSE "neutral"

\* names handed to trigger_manual: the keys of FALLBACK_RESPONSES, the types of its
\* docstring, and names that are neither
ManualNames ==
    {"greeting", "scene_description", "question_answer", "distress", "farewell",
     "generic", "scene", "question", "thanks", ""}

\* a text lookup by the response types of quick_responses
ManualText_ByType(response_type) ==
    IF \E key \in DOMAIN quick_responses : quick_responses[key].type = response_type
    THEN LET key == CHOOSE k \in DOMAIN quick_responses :
                       quick_responses[k].type = response_type IN
           quick_responses[key].text
    ELSE FALLBACK_RESPONSES.generic

\* trigger_manual: "if response_type in FALLBACK_RESPONSES: text = ... else generic"
ManualText(response_type) ==
    IF response_type \in DOMAIN FALLBACK_RESPONSES
    THEN FALLBACK_RESPONSES[response_type]
    ELSE FALLBACK_RESPONSES.generic

WizInit ==
    /\ wiz_spoken = [text |-> "", emotion |-> ""]
    /\ wiz_op = [kind |-> "init", arg |-> ""]

\* WizardOfOz.trigger_manual(response_type)
trigger_manual(response_type) ==
    /\ wiz_spoken' = [text |-> ManualText(response_type),
                      emotion |-> EmotionOf(response_type)]
    /\ wiz_op' = [kind |-> "manual", arg |-> response_type]
    /\ UNCHANGED <<base_vars, wiz_others>>

\* WizardOfOz._on_hotkey(key) for a registered key
OnHotkey(key) ==
    /\ key \in DOMAIN quick_responses
    /\ wiz_spoken' = [text |-> quick_responses[key].text,
                      emotion |-> EmotionOf(quick_responses[key].type)]
    /\ wiz_op' = [kind |-> "hotkey", arg |-> quick_responses[key].type]
    /\ UNCHANGED <<base_vars, wiz_others>>

\* the wizard next to the demo clip, which the operator starts and stops at any time
WizNext ==
    \/ \E response_type \in ManualNames : trigger_manual(response_type)
    \/ \E key \in DOMAIN quick_responses : OnHotkey(key)
    \/ start_demo_clip
    \/ stop_demo_clip
    \/ DemoTick

(***************************************************************************)
(* User utterance history: _on_wake_word and _on_user_speech               *)
(***************************************************************************)
\* self.max_history
max_history == 20

\* utterances recognized in a session
MaxUtterances == 23

\* acknowledgements counted
MaxAcks == 3

\* an eviction that drops the newest entry
Evict_Newest(history) == SubSeq(history, 1, Len(history) - 1)

\* self.user_history.pop(0)
Evict(history) == Tail(history)

\* "self.user_history.append(text); if len(self.user_history) > self.max_history: pop(0)"
AppendBounded(history, text) ==
    LET appended == Append(history, text) IN
      IF Len(appended) > max_history THEN Evict(appended) ELSE appended

HistInit ==
    /\ user_history = << >>
    /\ h_acks = 0
    /\ h_arrived = << >>
    /\ h_op = "init"

\* _on_wake_word(text): the utterance is appended and acknowledged; text is the number
\* of the utterance in the session
on_wake_word ==
    /\ Len(h_arrived) < MaxUtterances
    /\ LET text == Len(h_arrived) + 1 IN
         /\ user_history' = AppendBounded(user_history, text)
         /\ h_arrived' = Append(h_arrived, text)
    /\ h_acks' = IF h_acks < MaxAcks THEN h_acks + 1 ELSE h_acks
    /\ h_op' = "wake_word"
    /\ UNCHANGED <<base_vars, hist_others>>

\* _on_user_speech(text)
on_user_speech ==
    /\ Len(h_arrived) < MaxUtterances
    /\ LET text == Len(h_arrived) + 1 IN
         /\ user_history' = AppendBounded(user_history, text)
         /\ h_arrived' = Append(h_arrived, text)
    /\ h_op' = "user_speech"
    /\ UNCHANGED h_acks
    /\ UNCHANGED <<base_vars, hist_others>>

HistNext ==
    \/ on_wake_word
    \/ on_user_speech

(***************************************************************************)
(* Distress callback of the orchestrator: _on_distress and its cooldown    *)
(***************************************************************************)
\* self.distress_cooldown (seconds)
distress_cooldown == 30

\* granularity and horizon of the clock of this component (seconds)
CoolTickS == 10
MaxCoolTicks == 8

NoDistress == [at |-> 0, answered |-> FALSE, pre_comfort |-> None, count |-> 0]

\* __init__: self.last_distress_check = datetime.now()
CoolInit ==
    /\ last_distress_check = 0
    /\ co_now = 0
    /\ g_last_comfort = None
    /\ g_distress = NoDistress

\* "now - self.last_distress_check < self.distress_cooldown"
OnCooldown == co_now - last_distress_check < distress_cooldown

\* _on_distress(text): return while on cooldown, else stamp the check time and speak the
\* comfort message
on_distress ==
    /\ IF OnCooldown
       THEN UNCHANGED <<last_distress_check, g_last_comfort>>
       ELSE /\ last_distress_check' = co_now
            /\ g_last_comfort' = Some(co_now)
    /\ g_distress' = [at |-> co_now, answered |-> ~OnCooldown,
                      pre_comfort |-> g_last_comfort,
                      count |-> IF g_distress.count < 2 THEN g_distress.count + 1 ELSE 2]
    /\ UNCHANGED co_now
    /\ UNCHANGED <<base_vars, cool_others>>

\* time passes between two distress events
CoolTick ==
    /\ co_now < MaxCoolTicks * CoolTickS
    /\ co_now' = co_now + CoolTickS
    /\ UNCHANGED <<last_distress_check, g_last_comfort, g_distress>>
    /\ UNCHANGED <<base_vars, cool_others>>

CoolNext ==
    \/ on_distress
    \/ CoolTick

(***************************************************************************)
(* One session: start(), stop() and the signal handler on the main thread  *)
(***************************************************************************)
SdInit ==
    /\ sd_pc = "constructed"
    /\ sd_caller = "none"
    /\ sd_in_try = FALSE
    /\ sd_running = FALSE
    /\ sd_event = FALSE
    /\ sd_listening = FALSE
    /\ sd_thread = "none"
    /\ stop_calls = 0
    /\ farewells = 0
    /\ sd_way = ""

\* start(): self.running = True; self.shutdown_event.clear()
StartFlags ==
    /\ sd_pc = "constructed"
    /\ sd_running' = TRUE
    /\ sd_event' = FALSE
    /\ sd_pc' = "start_thread"
    /\ UNCHANGED <<sd_caller, sd_in_try, sd_listening, sd_thread, stop_calls, farewells,
                   sd_way>>
    /\ UNCHANGED <<base_vars, sd_others>>

\* start(): the vision thread is started when a vision service exists
StartVisionThread(has_vision) ==
    /\ sd_pc = "start_thread"
    /\ sd_thread' = IF has_vision THEN "alive" ELSE "none"
    /\ sd_pc' = "start_listening"
    /\ UNCHANGED <<sd_caller, sd_in_try, sd_running, sd_event, sd_listening, stop_calls,
                   farewells, sd_way>>
    /\ UNCHANGED <<base_vars, sd_others>>

\* start(): voice.start_listening(...)
StartListening ==
    /\ sd_pc = "start_listening"
    /\ sd_listening' = TRUE
    /\ sd_pc' = "greeting"
    /\ UNCHANGED <<sd_caller, sd_in_try, sd_running, sd_event, sd_thread, stop_calls,
                   farewells, sd_way>>
    /\ UNCHANGED <<base_vars, sd_others>>

\* start(): the greeting is spoken (block=True), then the try block is entered
Greeting ==
    /\ sd_pc = "greeting"
    /\ sd_pc' = "main_loop"
    /\ UNCHANGED <<sd_caller, sd_in_try, sd_running, sd_event, sd_listening, sd_thread,
                   stop_calls, farewells, sd_way>>
    /\ UNCHANGED <<base_vars, sd_others>>

\* SIGINT or SIGTERM is delivered to the main thread while it is in start():
\* signal_handler calls orchestrator.stop()
SignalArrives ==
    /\ sd_pc \in {"start_thread", "start_listening", "greeting", "main_loop"}
    /\ sd_in_try' = (sd_pc = "main_loop")
    /\ sd_caller' = "handler"
    /\ sd_way' = "signal"
    /\ sd_pc' = "stop_flags"
    /\ UNCHANGED <<sd_running, sd_event, sd_listening, sd_thread, stop_calls, farewells>>
    /\ UNCHANGED <<base_vars, sd_others>>

\* start(): asyncio.run(self._main_loop()) ends with KeyboardInterrupt, or returns or
\* raises otherwise; the finally block calls self.stop()
MainLoopEnds(way) ==
    /\ sd_pc = "main_loop"
    /\ sd_caller' = "finally"
    /\ sd_way' = way
    /\ sd_pc' = "stop_flags"
    /\ UNCHANGED <<sd_in_try, sd_running, sd_event, sd_listening, sd_thread, stop_calls,
                   farewells>>
    /\ UNCHANGED <<base_vars, sd_others>>

\* stop(): self.running = False; self.shutdown_event.set()
StopFlags ==
    /\ sd_pc = "stop_flags"
    /\ sd_running' = FALSE
    /\ sd_event' = TRUE
    /\ stop_calls' = stop_calls + 1
    /\ sd_pc' = "stop_listening"
    /\ UNCHANGED <<sd_caller, sd_in_try, sd_listening, sd_thread, farewells, sd_way>>
    /\ UNCHANGED <<base_vars, sd_others>>

\* stop(): voice.stop_listening(), then the join of the vision thread (at most 2 s)
StopListeningAndJoin(joined) ==
    /\ sd_pc = "stop_listening"
    /\ sd_listening' = FALSE
    /\ sd_thread' = IF sd_thread = "alive" /\ joined THEN "joined" ELSE sd_thread
    /\ sd_pc' = "stop_farewell"
    /\ UNCHANGED <<sd_caller, sd_in_try, sd_running, sd_event, stop_calls, farewells,
                   sd_way>>
    /\ UNCHANGED <<base_vars, sd_others>>

\* stop(): voice.cleanup(), then the farewell is spoken (block=True)
StopFarewell ==
    /\ sd_pc = "stop_farewell"
    /\ farewells' = farewells + 1
    /\ sd_pc' = "stop_done"
    /\ UNCHANGED <<sd_caller, sd_in_try, sd_running, sd_event, sd_listening, sd_thread,
                   stop_calls, sd_way>>
    /\ UNCHANGED <<base_vars, sd_others>>

\* signal_handler: sys.exit(0) after stop(); the SystemExit is raised where the signal
\* interrupted the main thread, and inside the try block of start() the finally block
\* runs on its way out
AfterHandlerStop == IF sd_in_try THEN "stop_flags" ELSE "exited"

\* stop() returns: to signal_handler, or to the finally block of start()
StopReturns ==
    /\ sd_pc = "stop_done"
    /\ IF sd_caller = "handler"
       THEN /\ sd_pc' = AfterHandlerStop
            /\ sd_caller' = "finally"
       ELSE /\ sd_pc' = "exited"
            /\ UNCHANGED sd_caller
    /\ UNCHANGED <<sd_in_try, sd_running, sd_event, sd_listening, sd_thread, stop_calls,
                   farewells, sd_way>>
    /\ UNCHANGED <<base_vars, sd_others>>

SdNext ==
    \/ StartFlags
    \/ \E has_vision \in BOOLEAN : StartVisionThread(has_vision)
    \/ StartListening
    \/ Greeting
    \/ SignalArrives
    \/ \E way \in {"keyboard_interrupt", "loop_ended"} : MainLoopEnds(way)
    \/ StopFlags
    \/ \E joined \in BOOLEAN : StopListeningAndJoin(joined)
    \/ StopFarewell
    \/ StopReturns

(***************************************************************************)
(* CognitiveProcessingPause                                                *)
(***************************************************************************)
\* thinking_start / thinking_end calls made on one controller
MaxThinkingCalls == 6

PauseInit ==
    /\ pause_constructed = FALSE
    /\ pause_callback = FALSE
    /\ unpause_callback = FALSE
    /\ is_paused = FALSE
    /\ p_log = << >>
    /\ p_last = [op |-> "none", called |-> FALSE]
    /\ p_calls = 0

\* CognitiveProcessingPause.__init__(pause_callback, unpause_callback)
PauseConstruct(with_pause, with_unpause) ==
    /\ ~pause_constructed
    /\ pause_constructed' = TRUE
    /\ pause_callback' = with_pause
    /\ unpause_callback' = with_unpause
    /\ is_paused' = FALSE
    /\ UNCHANGED <<p_log, p_last, p_calls>>
    /\ UNCHANGED <<base_vars, pause_others>>

\* a pause test that does not look at is_paused
ShouldPause_Always == pause_callback

\* thinking_start: "if self.pause_callback and not self.is_paused"
ShouldPause == pause_callback /\ ~is_paused

\* thinking_end: "if self.unpause_callback and self.is_paused"
ShouldUnpause == unpause_callback /\ is_paused

\* CognitiveProcessingPause.thinking_start
thinking_start ==
    /\ pause_constructed
    /\ p_calls < MaxThinkingCalls
    /\ IF ShouldPause
       THEN /\ is_paused' = TRUE
            /\ p_log' = Append(p_log, "pause")
       ELSE UNCHANGED <<is_paused, p_log>>
    /\ p_last' = [op |-> "thinking_start", called |-> ShouldPause]
    /\ p_calls' = p_calls + 1
    /\ UNCHANGED <<pause_constructed, pause_callback, unpause_callback>>
    /\ UNCHANGED <<base_vars, pause_others>>

\* CognitiveProcessingPause.thinking_end
thinking_end ==
    /\ pause_constructed
    /\ p_calls < MaxThinkingCalls
    /\ IF ShouldUnpause
       THEN /\ is_paused' = FALSE
            /\ p_log' = Append(p_log, "unpause")
       ELSE UNCHANGED <<is_paused, p_log>>
    /\ p_last' = [op |-> "thinking_end", called |-> ShouldUnpause]
    /\ p_calls' = p_calls + 1
    /\ UNCHANGED <<pause_constructed, pause_callback, unpause_callback>>
    /\ UNCHANGED <<base_vars, pause_others>>

PauseNext ==
    \/ \E with_pause \in BOOLEAN, with_unpause \in BOOLEAN :
          PauseConstruct(with_pause, with_unpause)
    \/ thinking_start
    \/ thinking_end

(***************************************************************************)
(* AudioMonitor.start / stop and the monitor threads                       *)
(***************************************************************************)
\* monitor threads created on one AudioMonitor
MaxMonThreads == 3

MonInit ==
    /\ is_monitoring = FALSE
    /\ monitor_thread = None
    /\ mon_threads = [t \in 1..MaxMonThreads |-> "none"]
    /\ mon_ingested = {}

\* AudioMonitor.start: refused while is_monitoring, else the flag is set and a new thread
\* is created and started
MonStart ==
    /\ ~is_monitoring
    /\ \E t \in 1..MaxMonThreads :
         /\ mon_threads[t] = "none"
         /\ \A u \in 1..MaxMonThreads : u < t => mon_threads[u] # "none"
         /\ mon_threads' = [mon_threads EXCEPT ![t] = "running"]
         /\ monitor_thread' = Some(t)
    /\ is_monitoring' = TRUE
    /\ mon_ingested' = {}
    /\ UNCHANGED <<base_vars, mon_others>>

\* AudioMonitor.start while monitoring: "Already monitoring", returns False
MonStartRefused ==
    /\ is_monitoring
    /\ UNCHANGED mon_vars
    /\ UNCHANGED <<base_vars, mon_others>>

\* AudioMonitor.stop: the flag is cleared and the thread started last is joined for at
\* most 2 s; within the join the thread either tests the flag and ends, or is still
\* inside a read or a callback when the join times out
MonStop(timed_out) ==
    /\ is_monitoring' = FALSE
    /\ mon_threads' = IF monitor_thread # None /\ ~timed_out
                          /\ mon_threads[monitor_thread[1]] = "running"
                      THEN [mon_threads EXCEPT ![monitor_thread[1]] = "ended"]
                      ELSE mon_threads
    /\ UNCHANGED <<monitor_thread, mon_ingested>>
    /\ UNCHANGED <<base_vars, mon_others>>

\* _monitor_with_pyaudio / _monitor_simulated: "while self.is_monitoring:" in thread t,
\* then a sample is read and handed to _process_db_level
MonitorLoopStep(t) ==
    /\ mon_threads[t] = "running"
    /\ IF is_monitoring
       THEN /\ mon_ingested' = mon_ingested \cup {t}
            /\ UNCHANGED mon_threads
       ELSE /\ mon_threads' = [mon_threads EXCEPT ![t] = "ended"]
            /\ UNCHANGED mon_ingested
    /\ UNCHANGED <<is_monitoring, monitor_thread>>
    /\ UNCHANGED <<base_vars, mon_others>>

MonNext ==
    \/ MonStart
    \/ MonStartRefused
    \/ \E timed_out \in BOOLEAN : MonStop(timed_out)
    \/ \E t \in 1..MaxMonThreads : MonitorLoopStep(t)

(***************************************************************************)
(* MockVisionCapture                                                       *)
(***************************************************************************)
\* MOCK_SCENES: caption and people_count of each scene, with Python's indices 0..4
MOCK_SCENES ==
    << [caption |-> "Scene: 2 persons detected, living room, television, couch",
        people_count |-> 2],
       [caption |-> "Scene: 1 person detected, elderly person, sitting, window",
        people_count |-> 1],
       [caption |-> "Scene: 3 persons detected, family gathering, dining table",
        people_count |-> 3],
       [caption |-> "Scene: 1 person detected, person looking sad, alone",
        people_count |-> 1],
       [caption |-> "Scene: 2 persons detected, animated conversation, gestures",
        people_count |-> 2] >>

\* "if self.frame_count % 30 != 0: return None"
AnalysisPeriod == 30

\* frames obtained and analyses made on one instance
MaxMockFrames == 65
MaxMockAnalyses == 3

MockInit ==
    /\ frame_count = 0
    /\ analysis_count = 0
    /\ scene_index = 0
    /\ mock_result = None
    /\ mk_op = "init"
    /\ mk_cycles = 0

\* MockVisionCapture.get_frame
mock_get_frame ==
    /\ frame_count < MaxMockFrames
    /\ frame_count' = frame_count + 1
    /\ mk_op' = "get_frame"
    /\ UNCHANGED <<analysis_count, scene_index, mock_result, mk_cycles>>
    /\ UNCHANGED <<base_vars, mock_others>>

\* MockVisionCapture.process_frame(frame)
mock_process_frame ==
    /\ analysis_count < MaxMockAnalyses
    /\ IF frame_count % AnalysisPeriod # 0
       THEN /\ mock_result' = None
            /\ UNCHANGED <<analysis_count, scene_index>>
       ELSE /\ analysis_count' = analysis_count + 1
            /\ scene_index' = (scene_index + 1) % Len(MOCK_SCENES)
            /\ mock_result' =
                 Some([frame_number |-> frame_count,
                       analysis_number |-> analysis_count + 1,
                       caption |->
                         [text |-> MOCK_SCENES[((scene_index + 1) % Len(MOCK_SCENES)) + 1].caption],
                       people_count |->
                         MOCK_SCENES[((scene_index + 1) % Len(MOCK_SCENES)) + 1].people_count])
    /\ mk_op' = "process_frame"
    /\ mk_cycles' = IF mk_op = "get_frame" /\ frame_count % AnalysisPeriod # 0
                    THEN (IF mk_cycles < 40 THEN mk_cycles + 1 ELSE 40)
                    ELSE 0
    /\ UNCHANGED frame_count
    /\ UNCHANGED <<base_vars, mock_others>>

MockNext ==
    \/ mock_get_frame
    \/ mock_process_frame

(***************************************************************************)
(* AudioMonitor: _process_db_level in the monitor thread, is_quiet and     *)
(* should_ai_speak in another thread                                       *)
(***************************************************************************)
\* granularity and horizon of the clock of this component (ms)
ConcTickMs == 250
MaxConcTicks == 3

\* samples: a quiet and a loud level
ConcLevels == {40, 85}

\* what a call of kind returns when it runs alone on the gate state (db, loud) at time t
ResultOn(kind, db, loud, t) ==
    LET quiet == IsQuietOn(db, loud, t) IN
      IF kind = "is_quiet"
      THEN [can_speak |-> quiet, current_db |-> 0, reason |-> "is_quiet"]
      ELSE [can_speak |-> quiet, current_db |-> db,
            reason |-> IF quiet THEN "quiet"
                       ELSE IF db > threshold_db THEN "loud" ELSE "recently_loud"]

NoResult == [can_speak |-> FALSE, current_db |-> 0, reason |-> "none"]

ConcInit ==
    /\ shared_current_db = 0
    /\ shared_last_loud_time = None
    /\ shared_now = 0
    /\ w_pc = "idle"
    /\ w_db = 0
    /\ r_pc = "idle"
    /\ r_kind = "none"
    /\ r_current = 0
    /\ r_quiet = FALSE
    /\ r_result = NoResult
    /\ r_possible = {}

\* the gate state after a step is one that existed during a call in progress
Existed(db, loud, t) ==
    IF r_pc = "idle" THEN r_possible
    ELSE r_possible \cup {ResultOn(r_kind, db, loud, t)}

\* _process_db_level(db): "self.current_db = db; self.db_history.append(db)"
WriterSetsLevel(db) ==
    /\ w_pc = "idle"
    /\ shared_current_db' = db
    /\ w_db' = db
    /\ w_pc' = "level_set"
    /\ r_possible' = Existed(db, shared_last_loud_time, shared_now)
    /\ UNCHANGED <<shared_last_loud_time, shared_now, r_pc, r_kind, r_current, r_quiet,
                   r_result>>
    /\ UNCHANGED <<base_vars, conc_others>>

\* _process_db_level(db): "if db > self.threshold_db: self.last_loud_time = now"
WriterStampsLoud ==
    /\ w_pc = "level_set"
    /\ shared_last_loud_time' = IF w_db > threshold_db THEN Some(shared_now)
                                ELSE shared_last_loud_time
    /\ w_pc' = "idle"
    /\ r_possible' = Existed(shared_current_db,
                             IF w_db > threshold_db THEN Some(shared_now)
                             ELSE shared_last_loud_time, shared_now)
    /\ UNCHANGED <<shared_current_db, shared_now, w_db, r_pc, r_kind, r_current,
                   r_quiet, r_result>>
    /\ UNCHANGED <<base_vars, conc_others>>

\* the reader calls is_quiet() or should_ai_speak()
ReaderCalls(kind) ==
    /\ r_pc = "idle"
    /\ r_kind' = kind
    /\ r_pc' = IF kind = "is_quiet" THEN "in_is_quiet" ELSE "called"
    /\ r_possible' = {ResultOn(kind, shared_current_db, shared_last_loud_time, shared_now)}
    /\ r_current' = 0
    /\ r_quiet' = FALSE
    /\ r_result' = NoResult
    /\ UNCHANGED <<shared_current_db, shared_last_loud_time, shared_now, w_pc, w_db>>
    /\ UNCHANGED <<base_vars, conc_others>>

\* should_ai_speak: "current = self.current_db; avg = self.get_average_db()"
ReaderTakesCurrent ==
    /\ r_pc = "called"
    /\ r_current' = shared_current_db
    /\ r_pc' = "in_is_quiet"
    /\ UNCHANGED <<shared_current_db, shared_last_loud_time, shared_now, w_pc, w_db,
                   r_kind, r_quiet, r_result, r_possible>>
    /\ UNCHANGED <<base_vars, conc_others>>

\* is_quiet: "if self.current_db > self.threshold_db: return False"
ReaderTestsLevel ==
    /\ r_pc = "in_is_quiet"
    /\ IF shared_current_db > threshold_db
       THEN r_quiet' = FALSE /\ r_pc' = "have_quiet"
       ELSE UNCHANGED r_quiet /\ r_pc' = "level_ok"
    /\ UNCHANGED <<shared_current_db, shared_last_loud_time, shared_now, w_pc, w_db,
                   r_kind, r_current, r_result, r_possible>>
    /\ UNCHANGED <<base_vars, conc_others>>

\* is_quiet: the test of last_loud_time and of the elapsed time
ReaderTestsElapsed ==
    /\ r_pc = "level_ok"
    /\ r_quiet' = IF shared_last_loud_time = None THEN TRUE
                  ELSE shared_now - shared_last_loud_time[1] >= quiet_duration_ms
    /\ r_pc' = "have_quiet"
    /\ UNCHANGED <<shared_current_db, shared_last_loud_time, shared_now, w_pc, w_db,
                   r_kind, r_current, r_result, r_possible>>
    /\ UNCHANGED <<base_vars, conc_others>>

\* the call returns: the value of is_quiet(), or the dictionary of should_ai_speak
ReaderReturns ==
    /\ r_pc = "have_quiet"
    /\ r_result' =
         IF r_kind = "is_quiet"
         THEN [can_speak |-> r_quiet, current_db |-> 0, reason |-> "is_quiet"]
         ELSE [can_speak |-> r_quiet, current_db |-> r_current,
               reason |-> IF r_quiet THEN "quiet"
                          ELSE IF r_current > threshold_db THEN "loud"
                          ELSE "recently_loud"]
    /\ r_pc' = "idle"
    /\ UNCHANGED <<shared_current_db, shared_last_loud_time, shared_now, w_pc, w_db,
                   r_kind, r_current, r_quiet, r_possible>>
    /\ UNCHANGED <<base_vars, conc_others>>

\* time passes
ConcTick ==
    /\ shared_now < MaxConcTicks * ConcTickMs
    /\ shared_now' = shared_now + ConcTickMs
    /\ r_possible' = Existed(shared_current_db, shared_last_loud_time,
                             shared_now + ConcTickMs)
    /\ UNCHANGED <<shared_current_db, shared_last_loud_time, w_pc, w_db, r_pc, r_kind,
                   r_current, r_quiet, r_result>>
    /\ UNCHANGED <<base_vars, conc_others>>

ConcNext ==
    \/ \E db \in ConcLevels : WriterSetsLevel(db)
    \/ WriterStampsLoud
    \/ \E kind \in {"is_quiet", "should_ai_speak"} : ReaderCalls(kind)
    \/ ReaderTakesCurrent
    \/ ReaderTestsLevel
    \/ ReaderTestsElapsed
    \/ ReaderReturns
    \/ ConcTick

(***************************************************************************)
(* Specifications                                                          *)
(***************************************************************************)
Init == GateInit /\ OrchInit /\ DemoInit /\ KeyInit /\ EngInit /\ VoiceInit /\ CamInit /\ TsInit
        /\ WizInit /\ HistInit /\ CoolInit /\ SdInit
        /\ PauseInit /\ MonInit /\ MockInit /\ ConcInit

Next == GateNext \/ OrchNext \/ DemoNext \/ KeyNext \/ EngNext \/ VoiceNext \/ CamNext \/ TsNext
        \/ WizNext \/ HistNext \/ CoolNext \/ SdNext
        \/ PauseNext \/ MonNext \/ MockNext \/ ConcNext

SpecGate == Init /\ [][GateNext]_vars

SpecOrch == Init /\ [][OrchNext]_vars

\* the asyncio event loop keeps running the iterations of _main_loop, and cognition
\* iterations keep coming: every 30th iteration is one, and distress expires after 10 s
FairOrch == SpecOrch /\ WF_vars(MainLoopNext) /\ SF_vars(MainCognition)

SpecDemo == Init /\ [][DemoNext]_vars

SpecKey == Init /\ [][KeyNext]_vars

SpecEngine == Init /\ [][EngNext]_vars

SpecVoice == Init /\ [][VoiceNext]_vars

SpecVision == Init /\ [][CamNext]_vars

SpecTimestamp == Init /\ [][TsNext]_vars

SpecWizard == Init /\ [][WizNext]_vars

SpecHistory == Init /\ [][HistNext]_vars

SpecCooldown == Init /\ [][CoolNext]_vars

SpecSession == Init /\ [][SdNext]_vars

SpecPause == Init /\ [][PauseNext]_vars

SpecMonitor == Init /\ [][MonNext]_vars

SpecMock == Init /\ [][MockNext]_vars

SpecGateThreads == Init /\ [][ConcNext]_vars

\* the vision worker is a thread of its own: it keeps taking its steps until it ends
FairVision == SpecVision /\ WF_vars(WorkerNext)

\* the session of SpecOrchGate: a healthy reasoning collaborator, no demo mode
InitOrchGate == Init /\ ~outage /\ ~is_demo

SpecOrchGate == InitOrchGate /\ [][OrchGateNext]_vars

Spec == Init /\ [][Next]_vars

(***************************************************************************)
(* Properties                                                              *)
(***************************************************************************)

\* C1: the observation queue between the vision worker and the orchestration loop
\* never holds more than one unconsumed observation.
C1_QueueAtMostOne == Len(caption_queue) <= 1

\* C2: whenever the orchestration loop takes an observation from the queue, it is the
\* one most recently published by the vision worker at that moment.
C2_TakesNewest == g_taken # None => g_taken = g_newest_at_take

\* C3: in an active session in which every call of the reasoner fails, a non-empty
\* utterance is eventually dispatched for a failed call (or the session ends).
C3_OutageEventuallySpeaks ==
    (outage /\ running /\ g_failed_calls) ~> (g_fallback_spoken \/ ~running)

\* C4: when the reasoner times out, the decision that fallback resolution returns has
\* non-empty content, the response of the generic category.
C4_TimeoutResolvesGeneric ==
    (d_op \in {"analyze_context", "get_response"} /\ demo_arg = "timeout")
        => (demo_resp.content # "" /\ demo_resp.content = FALLBACK_RESPONSES.generic)

\* C5: DemoController.get_response returns non-empty content for every input, in
\* every state of the demo clip.
C5_GetResponseNonEmpty == d_op = "get_response" => demo_resp.content # ""

\* C5 witness: a reasoner response with empty content, resolved while a clip that was
\* started some time ago is active.
C5_Witness ==
    /\ d_op = "get_response"
    /\ demo_arg = "speak_empty"
    /\ is_demo_active
    /\ get_elapsed_seconds > 0
    /\ demo_resp.source = "demo_mode"

\* C6: is_quiet is false in every state in which the current level is above the
\* threshold, whatever the time since the last loud sample.
C6_LoudNotPermitted == current_db > threshold_db => ~is_quiet

\* C6 witness: the level is still above the threshold although the last loud sample is
\* at least quiet_duration_ms old.
C6_Witness ==
    /\ current_db > threshold_db
    /\ last_loud_time # None
    /\ now - last_loud_time[1] >= quiet_duration_ms
    /\ ~is_quiet

C8_MonotonicWhileQuiet ==
    [][(is_quiet /\ current_db' <= threshold_db) => is_quiet']_vars

\* C8 witness: after a loud period the gate has opened and a further sample at/under
\* the threshold has been observed with the gate still open.
C8_Witness ==
    /\ g_op = "observe"
    /\ last_loud_time # None
    /\ now - last_loud_time[1] > quiet_duration_ms
    /\ g_drop_time # None
    /\ now > g_drop_time[1]
    /\ is_quiet

\* C9: samples at/under the threshold never change last_loud_time: it always equals
\* the time of the last sample above the threshold (unset when there was none).
C9_QuietSamplesKeepLastLoud == last_loud_time = g_last_loud

\* C9 witness: the same level at/under the threshold observed repeatedly, later than
\* the last loud sample.
C9_Witness ==
    /\ g_op = "observe"
    /\ g_repeats >= 3
    /\ current_db <= threshold_db
    /\ last_loud_time # None
    /\ now > last_loud_time[1]

\* C10: as long as no sample has exceeded the threshold, last_loud_time is unset and
\* is_quiet is true.
C10_DefaultPermitted == g_last_loud = None => (last_loud_time = None /\ is_quiet)

\* C10 witness: several samples, all at/under the threshold, and time has passed.
C10_Witness ==
    /\ g_last_loud = None
    /\ g_op = "observe"
    /\ g_repeats >= 2
    /\ current_db = threshold_db
    /\ now > 0
    /\ is_quiet

C14_FalseVerdictKeepsState ==
    /\ (g_eval.kind = "evaluate" /\ g_eval.verdict = "false") =>
          (previous_frame_gray = g_eval.pre_prev /\ last_analysis_time = g_eval.pre_last)
    /\ (/\ g_eval.kind = "evaluate" /\ g_prev_eval.kind = "evaluate"
        /\ g_prev_eval.verdict = "false" /\ g_prev_eval.frame = g_eval.frame
        /\ g_eval.pre_accept # None
        /\ g_eval.at - g_eval.pre_accept[1] < max_interval_seconds) =>
          g_eval.verdict = "false"

C14_Witness ==
    /\ g_eval.kind = "evaluate" /\ g_prev_eval.kind = "evaluate"
    /\ g_prev_eval.verdict = "false" /\ g_prev_eval.frame = g_eval.frame
    /\ g_eval.at > g_prev_eval.at
    /\ g_eval.at - g_eval.pre_accept[1] < max_interval_seconds
    /\ g_eval.verdict = "false"
    /\ previous_frame_gray = g_prev_eval.pre_prev
    /\ last_analysis_time = g_prev_eval.pre_last

\* C15: once a keyframe has been accepted, a frame evaluated before max_interval_seconds
\* have passed since then is a keyframe exactly when its similarity to the reference
\* frame is under ssim_threshold; a frame identical to the reference is not a keyframe.
C15_SimilarityDecidesWithinInterval ==
    (/\ g_eval.kind = "evaluate" /\ Convertible(g_eval.frame)
     /\ g_eval.pre_accept # None /\ g_eval.pre_prev # None
     /\ g_eval.at - g_eval.pre_accept[1] < max_interval_seconds) =>
        LET gray == cvtColor(g_eval.frame) IN
          /\ ~SsimRaises(g_eval.pre_prev[1], gray) =>
                (g_eval.verdict = "true" <=> ssim(g_eval.pre_prev[1], gray) < ssim_threshold)
          /\ g_eval.pre_prev[1] = gray => g_eval.verdict = "false"

C15_Witness ==
    /\ g_eval.kind = "evaluate" /\ max_interval_seconds = 15
    /\ g_eval.pre_prev = Some("a") /\ g_eval.frame = "A2"
    /\ g_eval.at > g_eval.pre_accept[1]
    /\ g_eval.at - g_eval.pre_accept[1] < max_interval_seconds
    /\ g_eval.verdict = "false"
    /\ g_prev_eval.frame = "A" /\ g_prev_eval.verdict = "true"

\* C16: a frame whose similarity evaluation fails is treated as not a keyframe: the
\* evaluation returns False, the detector state is unchanged, and the capture loop keeps
\* running.
C16_FailedEvaluationKeepsLoop ==
    (g_eval.kind = "evaluate" /\ g_eval.failed # "none") =>
        /\ g_eval.verdict = "false"
        /\ previous_frame_gray = g_eval.pre_prev
        /\ last_analysis_time = g_eval.pre_last
        /\ kf_pc = "capturing"

\* C11: the orchestration loop hands a cognition decision to speech only while the
\* loudness gate permits speech.
C11_DispatchOnlyWhenGatePermits ==
    g_cycle.dispatched => g_cycle.gate_permits

C18_DispatchOnlySpeakableDecision ==
    g_cycle.kind = "cognition" =>
        LET d == g_cycle.decision[1] IN
          g_cycle.dispatched <=> (~IsRaised(d) /\ d.should_speak /\ d.content # "")

C18_Witness ==
    /\ g_cycle.kind = "cognition" /\ g_cycle.outcome = "speak_empty"
    /\ g_cycle.decision[1].should_speak /\ ~g_cycle.dispatched
    /\ last_spoken.text = "Oh, that's such a lovely moment between them."

\* C19 (as stated): the reasoner is called in a cognition iteration only if a caption
\* was taken from the queue since the previous reasoner call.
C19_ReasonerOnlyOnFreshObservation ==
    g_cycle.kind = "cognition" => g_cycle.fresh

\* C19 (amended): the reasoner is called only when some caption has been taken from the
\* queue, and it is called with the latest caption taken, fresh or not.
C19_ReasonerOnLatestTaken ==
    (main_pc = "loop_top" /\ g_cycle.kind = "cognition") =>
        (g_cycle.caption # None /\ g_cycle.caption = g_taken)

C19_Witness ==
    /\ main_pc = "loop_top" /\ g_cycle.kind = "cognition"
    /\ ~g_cycle.fresh /\ g_cycle.caption = Some(1) /\ caption_queue = << >>

\* C20: analyze_context never lets a reasoner failure out: on an exception of the call,
\* a timeout, a payload that is not JSON or a JSON payload that is not an object, it
\* returns a fallback decision that has should_speak, emotion, content and reasoning.
C20_AnalyzeContextNeverRaises ==
    g_cycle.kind = "cognition" =>
        LET d == g_cycle.decision[1] IN
          /\ ~IsRaised(d)
          /\ {"should_speak", "emotion", "content", "reasoning"} \subseteq DOMAIN d
          /\ g_cycle.outcome \in FailureOutcomes =>
                (d.should_speak = FALSE /\ d.content = "" /\ d.emotion = "neutral" /\ d.error)

C20_Witness ==
    /\ g_cycle.kind = "cognition" /\ g_cycle.outcome = "not_object"
    /\ ~IsRaised(g_cycle.decision[1])
    /\ g_cycle.decision[1].should_speak = FALSE /\ g_cycle.decision[1].error
    /\ ~g_cycle.dispatched

\* C21 (as stated): for a reasoner response that is a JSON object, every missing field
\* is defaulted to should_speak false, emotion "neutral", content "", reasoning
\* "no reasoning", every field that is present is kept, and the result is not a failure.
C21_MissingFieldsDefaulted ==
    eng_payload # None =>
        LET p == eng_payload[1]
            r == eng_result[1]
            defaults == [should_speak |-> FALSE, emotion |-> "neutral", content |-> "",
                         reasoning |-> "no reasoning"] IN
          /\ ~IsRaised(r) /\ ~r.error
          /\ \A f \in DecisionFields :
                r[f] = IF f \in DOMAIN p THEN p[f] ELSE defaults[f]

\* C21 (amended): the same with the default of reasoning being "No reasoning provided".
C21_MissingFieldsDefaultedAsCoded ==
    eng_payload # None =>
        LET p == eng_payload[1]
            r == eng_result[1]
            defaults == [should_speak |-> FALSE, emotion |-> "neutral", content |-> "",
                         reasoning |-> "No reasoning provided"] IN
          /\ ~IsRaised(r) /\ ~r.error
          /\ \A f \in DecisionFields :
                r[f] = IF f \in DOMAIN p THEN p[f] ELSE defaults[f]

C21_Witness ==
    /\ eng_payload # None
    /\ DOMAIN eng_payload[1] = {"should_speak", "emotion"}
    /\ eng_payload[1].should_speak /\ eng_result[1].should_speak
    /\ eng_result[1].emotion = "cheerful"
    /\ eng_result[1].content = "" /\ eng_result[1].reasoning = "No reasoning provided"

\* C22: dispatching speech does not block the orchestration loop: while the synthesis
\* of an utterance the loop dispatched is in progress, the loop is iterating, not waiting
\* for the synthesis to complete.
C22_LoopRunsDuringSynthesis ==
    "loop" \in synth => vloop_pc = "iterating"

\* C23: dispatch requests are serialized: at most one utterance is being synthesized at
\* any time, whatever the interleaving of the loop and the recognizer callbacks.
C23_OneUtteranceAtATime ==
    Cardinality(synth) <= 1

\* C24: no error raised by the reasoner, the synthesizer or the queue handling inside an
\* iteration ends the orchestration loop: after such an error the loop is back at the
\* test of its while condition, and it ends only when stop() has cleared running and
\* set the shutdown event.
C24_ErrorsNeverEndLoop ==
    /\ main_pc \in {"constructed", "loop_top", "step2", "stopped"}
    /\ main_pc = "stopped" => (~running /\ shutdown_event)
    /\ (g_cycle.kind = "error" /\ running /\ ~shutdown_event) =>
          main_pc \in {"loop_top", "step2"}

C24_Witness ==
    /\ g_cycle.kind = "error" /\ latest_caption # None
    /\ running /\ ~shutdown_event
    /\ main_pc = "step2" /\ loop_count = 1


\* C25: after the shutdown signal is raised, the vision worker eventually stops and the
\* camera handle is released and cleared, also when the camera failed to start or an
\* analysis call is in progress.
C25_ShutdownReleasesCamera ==
    vw_shutdown ~> (vw_pc \in {"stopped", "returned", "killed"} /\ cap = "none")

C27_BoundedTransientRetry ==
    /\ attempts <= 3
    /\ g_request.calls <= 3
    /\ (vw_pc = "analysing" /\ attempts > 0)
         => g_request.outcome \in {"ConnectionError", "TimeoutError"}
    /\ g_request.outcome = "HttpResponseError" => vw_pc # "analysing"
    /\ (g_request.outcome = "HttpResponseError" /\ vw_pc = "loop")
         => g_request.calls = attempts

C27_Witness ==
    /\ g_request.calls = 3
    /\ g_request.outcome \in {"ConnectionError", "TimeoutError"}
    /\ vw_pc = "loop"

\* C28: 0 <= consecutive_failures <= max_consecutive_failures after any sequence of
\* get_frame calls; a get_frame call that read a frame leaves the counter at 0; the call
\* whose failed read brings the counter to the maximum attempts a reconnect.
C28_FailureCounterBounded ==
    /\ consecutive_failures >= 0
    /\ consecutive_failures <= 10
    /\ (g_frame.calls > 0 /\ g_frame.ret) => consecutive_failures = 0
    /\ (g_frame.calls > 0 /\ g_frame.pre_cap = "open" /\ ~g_frame.read1
           /\ g_frame.pre_failures + 1 = 10)
         => g_frame.reconnect

C28_Witness ==
    /\ g_frame.pre_failures = 9
    /\ g_frame.reconnect
    /\ ~g_frame.ret
    /\ consecutive_failures = 10


\* C29: for every elapsed time s >= 0 exactly one registered entry has s in its interval
\* [start, end), the last entry having no end, and the timestamp strategy returns that
\* entry: a boundary value gets the entry that starts there, and 45 s gets the entry of
\* [30, 60).
C29_TimestampEntryHalfOpen ==
    ts_seconds # None =>
      LET s == ts_seconds[1]
          holds == {i \in 1..Len(DEMO_CLIP_RESPONSES) :
                      /\ DEMO_CLIP_RESPONSES[i].start <= s
                      /\ \/ i = Len(DEMO_CLIP_RESPONSES)
                         \/ s < DEMO_CLIP_RESPONSES[i + 1].start} IN
        /\ Cardinality(holds) = 1
        /\ \A i \in holds :
              /\ ts_result.response = DEMO_CLIP_RESPONSES[i].response
              /\ ts_result.emotion = DEMO_CLIP_RESPONSES[i].emotion
        /\ \A i \in 1..Len(DEMO_CLIP_RESPONSES) :
              s = DEMO_CLIP_RESPONSES[i].start
                => ts_result.response = DEMO_CLIP_RESPONSES[i].response
        /\ s = 45 => ts_result.response = "Look at them growing up together"

C29_Witness ==
    /\ ts_seconds \in {Some(45), Some(30), Some(60), Some(240)}
    /\ ts_result.response # ""

\* C30: a fallback resolution (get_response without a usable reasoner response, or the
\* spacebar trigger) returns the timeline entry of the current elapsed time whenever the
\* demo clip is active, and the scene_description entry of the category table only when
\* no clip is active.
C30_TimelineBeforeCategoryTable ==
    (d_op \in {"get_response", "spacebar"} /\ demo_resp.source # "azure") =>
      IF is_demo_active
      THEN /\ demo_resp.source \in {"demo_mode", "wizard"}
           /\ \E i \in 1..Len(DEMO_CLIP_RESPONSES) :
                 /\ DEMO_CLIP_RESPONSES[i].start <= demo_now - clip_start_time[1]
                 /\ \/ DEMO_CLIP_RESPONSES[i].end = None
                    \/ demo_now - clip_start_time[1] < DEMO_CLIP_RESPONSES[i].end[1]
                 /\ demo_resp.content = DEMO_CLIP_RESPONSES[i].response
      ELSE /\ demo_resp.source \in {"fallback", "wizard"}
           /\ demo_resp.content = FALLBACK_RESPONSES.scene_description

C30_Witness ==
    /\ d_op = "get_response"
    /\ demo_arg \in FailureOutcomes
    /\ is_demo_active
    /\ demo_resp.source = "demo_mode"
    /\ demo_resp.content = "Look at them growing up together"


C36_ManualEqualsHotkey ==
    (wiz_op.kind = "manual"
       /\ wiz_op.arg \in {"greeting", "scene", "question", "distress", "farewell",
                           "generic"})
      => \E key \in DOMAIN quick_responses :
           /\ quick_responses[key].type = wiz_op.arg
           /\ wiz_spoken = [text |-> quick_responses[key].text,
                            emotion |-> EmotionOf(quick_responses[key].type)]


\* C32: is_demo_active holds exactly when a clip start time is set; only a start call
\* sets the start time, to the time of that call, and only a stop call clears it; a
\* lookup made while the clip is active uses the time elapsed since that start.
C32_ClipStateMachine ==
    /\ [](is_demo_active <=> clip_start_time # None)
    /\ [][/\ clip_start_time' # clip_start_time =>
              \/ /\ d_op' \in {"start_demo_clip", "controller_start"}
                 /\ clip_start_time' = Some(demo_now)
                 /\ is_demo_active'
              \/ /\ d_op' = "stop_demo_clip"
                 /\ clip_start_time' = None
                 /\ ~is_demo_active'
          /\ d_op' = "start_demo_clip" =>
                (is_demo_active' /\ clip_start_time' = Some(demo_now))
          /\ d_op' = "stop_demo_clip" => (~is_demo_active' /\ clip_start_time' = None)
          /\ (d_op' \in {"get_response", "spacebar"} /\ is_demo_active
                /\ demo_resp'.source \in {"demo_mode", "wizard"}) =>
                \E i \in 1..Len(DEMO_CLIP_RESPONSES) :
                  /\ DEMO_CLIP_RESPONSES[i].start <= demo_now - clip_start_time[1]
                  /\ \/ DEMO_CLIP_RESPONSES[i].end = None
                     \/ demo_now - clip_start_time[1] < DEMO_CLIP_RESPONSES[i].end[1]
                  /\ demo_resp'.content = DEMO_CLIP_RESPONSES[i].response]_vars

C32_Witness ==
    /\ is_demo_active
    /\ clip_start_time # None
    /\ clip_start_time[1] > 0
    /\ d_op = "spacebar"
    /\ demo_resp.content = "She's showing him her adventure book!"


\* C33: after any sequence of wake-word and user-speech callbacks the history holds at
\* most 20 entries, and they are the most recent utterances in arrival order.
C33_HistoryBounded ==
    /\ Len(user_history) <= 20
    /\ Len(user_history) = IF Len(h_arrived) < 20 THEN Len(h_arrived) ELSE 20
    /\ \A i \in 1..Len(user_history) :
          user_history[i] = h_arrived[Len(h_arrived) - Len(user_history) + i]

C33_Witness ==
    /\ Len(h_arrived) > 21
    /\ Len(user_history) = 20
    /\ user_history[1] = Len(h_arrived) - 19
    /\ h_acks > 0


\* C37: a distress event is answered with the comfort message if and only if no comfort
\* message was spoken in the 30 seconds before it; the first distress event of a session
\* is always answered.
C37_ComfortUnlessRecentComfort ==
    g_distress.count > 0 =>
      (g_distress.answered <=>
         (g_distress.pre_comfort = None
            \/ g_distress.at - g_distress.pre_comfort[1] >= 30))


\* C38: whichever way the session ends, the shut-down actions run once and the farewell
\* utterance is spoken exactly once.
C38_ShutdownOnce ==
    /\ stop_calls <= 1
    /\ farewells <= 1
    /\ sd_pc = "exited" => (stop_calls = 1 /\ farewells = 1)


\* C40: for every sequence of thinking_start and thinking_end calls the callbacks are
\* invoked strictly alternately, starting with pause, and is_paused is true exactly
\* between a pause call and the next unpause call.
C40_PauseUnpauseAlternate ==
    /\ \A i \in 1..Len(p_log) :
          p_log[i] = IF i % 2 = 1 THEN "pause" ELSE "unpause"
    /\ is_paused <=> (Len(p_log) > 0 /\ p_log[Len(p_log)] = "pause")

C40_Witness ==
    /\ p_log = <<"pause", "unpause", "pause">>
    /\ p_last = [op |-> "thinking_start", called |-> FALSE]
    /\ is_paused


\* C39: for every sequence and timing of start() and stop() calls there is never more
\* than one live monitor thread ingesting samples into the gate.
C39_OneMonitorThread ==
    /\ Cardinality({t \in 1..MaxMonThreads : mon_threads[t] = "running"}) <= 1
    /\ Cardinality(mon_ingested) <= 1


\* C35: process_frame returns a scene analysis, with caption text and people_count,
\* exactly when the number of frames obtained so far through get_frame is a positive
\* multiple of 30, and None otherwise; so fewer than 35 cycles in a row are without an
\* analysis.
C35_AnalysisEveryThirtiethFrame ==
    /\ mk_op = "process_frame" =>
         /\ mock_result # None <=> (frame_count > 0 /\ frame_count % 30 = 0)
         /\ mock_result # None =>
               (mock_result[1].caption.text # "" /\ mock_result[1].people_count >= 0)
    /\ mk_cycles < 35


\* C34: under every interleaving of _process_db_level with is_quiet() and
\* should_ai_speak(), the result a reader gets equals the result of its call on a gate
\* state that existed between the start and the end of the call.
C34_ReaderSeesAnExistingState ==
    (r_pc = "idle" /\ r_kind # "none") => r_result \in r_possible

====
